---------------------------- MODULE Spec2Model ----------------------------
(***************************************************************************)
(* WhatFits browser extension: storage wrappers, deterministic rules, the  *)
(* OpenAI integration, the content script's message handlers and the two   *)
(* popup builds (the chat popup of popup/popup.js and the analysis popup   *)
(* whose code is kept in background/service-worker.js).                    *)
(*                                                                         *)
(* JavaScript values are modelled as follows.  An object is a function     *)
(* from field names to values; a field that is undefined or null is not in *)
(* its DOMAIN.  A null object is JsNull.  An array is a sequence.  A       *)
(* string on which the code does character work (an ingredient) is a       *)
(* sequence of one-character strings; "e_acute" stands for the letter      *)
(* e-acute.  Other strings are TLA+ strings.                               *)
(***************************************************************************)
EXTENDS Integers, Sequences, FiniteSets, TLC

VARIABLES
    \* ---- one call of lib/llm.js (analyzeProductAlignment / analyzeCartCoherence)
    fn,          \* "product" or "cart": which exported function is called
    argData,     \* productData or cartData argument
    argContext,  \* userContext argument
    argKey,      \* apiKey argument
    callPc,      \* "start" | "awaiting" (fetch in flight) | "resolved" | "rejected"
    callHttp,    \* the HTTP requests this call has issued, in order
    callTrace,   \* the steps this call has run, in order
    callAnswer,  \* what the fetch settled with (JsNull before)
    callResult   \* the value the promise settled with

llmVars == <<fn, argData, argContext, argKey, callPc, callHttp, callTrace, callAnswer,
             callResult>>

VARIABLES
    \* ---- one call of a function of lib/rules.js
    ruleFn,      \* the function called, "none" before the call
    ruleArg,     \* its argument
    ruleResult   \* what it returned (JsNull before the call)

rulesVars == <<ruleFn, ruleArg, ruleResult>>

VARIABLES
    \* ---- lib/storage.js over chrome.storage.local
    schemaVersion, \* which of the two storage.js sources is loaded: "v2" or "v3"
    localStore,    \* chrome.storage.local: a function from the keys present to their values
    lastCall,      \* the last call of a storage wrapper: [op, returned, ...]
    lastWrite      \* history: the last successful write of the user context

storageVars == <<schemaVersion, localStore, lastCall, lastWrite>>

VARIABLES
    \* ---- the extension at work: popup, content script, service worker
    build,               \* which popup script is loaded: "chat" (popup/popup.js) or
                         \* "analysis" (the popup script of background/service-worker.js)
    tabUrl,              \* URL of the active tab, a sequence of tokens
    swEvents,            \* chrome.tabs.onUpdated events not yet handled
    sessionStore,        \* chrome.storage.session
    pc,                  \* position of each task of the popup; "closed" when there is no popup
    currentTabId,
    currentProductData,
    previousProductData,
    currentChatHistory,
    isChatActive,
    dom,                 \* the controls and texts of the popup document
    frame,               \* locals that a handler keeps across its awaits
    contentScript,       \* enrichCartItems in progress in the page
    requests,            \* HTTP requests in flight
    posts,               \* history: per handler, the POSTs to the LLM endpoint since its click
    stages,              \* history: the stages Check Alignment has run since its click
    closedWith,          \* history: the script variables of the chat popup when it was
                         \* last closed with its initialisation finished
    out,                 \* what the last step sent out of the running script
    lastStep             \* the last step taken

memVars == <<currentTabId, currentProductData, previousProductData, currentChatHistory,
             isChatActive>>

popupVars == <<pc, memVars, dom, frame>>

extVars == <<build, tabUrl, swEvents, sessionStore, popupVars, contentScript, requests,
             posts, stages, closedWith, out, lastStep>>

vars == <<llmVars, rulesVars, storageVars, extVars>>

-----------------------------------------------------------------------------
(* JavaScript values *)

JsNull == [null |-> TRUE]

IsNull(v) == "null" \in DOMAIN v

JsStr(s) == [str |-> s]

IsStr(v) == "str" \in DOMAIN v

\* !!v for null, a string or an object
Truthy(v) == /\ ~IsNull(v)
             /\ IsStr(v) => v.str # ""

Has(o, f) == ~IsNull(o) /\ f \in DOMAIN o

\* {}
EmptyObject == [k \in {} |-> TRUE]

\* { ...a, ...b } ; spreading null adds nothing
Spread(a, b) ==
    LET da == IF IsNull(a) THEN {} ELSE DOMAIN a
        db == IF IsNull(b) THEN {} ELSE DOMAIN b
    IN  [k \in da \cup db |-> IF k \in db THEN b[k] ELSE a[k]]

Range(s) == {s[i] : i \in 1..Len(s)}

\* the array as it is, repeated entries kept
Dedup_KeepsRepeats(s) == s

\* [...new Set(s)] : first occurrences, in order
RECURSIVE Dedup(_)
Dedup(s) ==
    IF s = <<>> THEN <<>>
    ELSE LET front == Dedup(SubSeq(s, 1, Len(s) - 1))
             last  == s[Len(s)]
         IN  IF last \in Range(front) THEN front ELSE Append(front, last)

-----------------------------------------------------------------------------
(* Character strings *)

UpperLetters == <<"A", "B", "C", "D", "E", "F", "G", "H", "I", "J", "K", "L", "M",
                  "N", "O", "P", "Q", "R", "S", "T", "U", "V", "W", "X", "Y", "Z">>

LowerLetters == <<"a", "b", "c", "d", "e", "f", "g", "h", "i", "j", "k", "l", "m",
                  "n", "o", "p", "q", "r", "s", "t", "u", "v", "w", "x", "y", "z">>

Digits == {"0", "1", "2", "3", "4", "5", "6", "7", "8", "9"}

Backslash == "\\"

\* the class [a-z0-9] of the trimming regex
AlnumLower == Range(LowerLetters) \cup Digits

\* the characters String.prototype.trim removes
Whitespace == {" ", "\t", "\n"}

toLowerChar(c) ==
    IF c \in Range(UpperLetters)
    THEN LowerLetters[CHOOSE i \in 1..Len(UpperLetters) : UpperLetters[i] = c]
    ELSE IF c = "E_ACUTE" THEN "e_acute" ELSE c

toLowerCase(s) == [i \in 1..Len(s) |-> toLowerChar(s[i])]

\* s.includes(t)
Includes(s, t) ==
    \E i \in 0..(Len(s) - Len(t)) : SubSeq(s, i + 1, i + Len(t)) = t

\* arr.join(' ')
RECURSIVE JoinSpace(_)
JoinSpace(arr) ==
    IF arr = <<>> THEN <<>>
    ELSE IF Len(arr) = 1 THEN arr[1]
    ELSE arr[1] \o <<" ">> \o JoinSpace(Tail(arr))

\* s.trim()
trim(s) ==
    LET keep == {i \in 1..Len(s) : s[i] \notin Whitespace}
    IN  IF keep = {} THEN <<>>
        ELSE SubSeq(s, CHOOSE i \in keep : \A j \in keep : i <= j,
                       CHOOSE i \in keep : \A j \in keep : i >= j)


-----------------------------------------------------------------------------
(* lib/rules.js: deterministic rules (no LLM) *)

STIMULANTS_direct ==
    << <<"c", "a", "f", "f", "e", "i", "n", "e">>,
       <<"c", "a", "f", "e_acute", "i", "n", "e">>,
       <<"s", "y", "n", "e", "p", "h", "r", "i", "n", "e">>,
       <<"y", "o", "h", "i", "m", "b", "i", "n", "e">>,
       <<"a", "n", "h", "y", "d", "r", "o", "u", "s", " ",
         "c", "a", "f", "f", "e", "i", "n", "e">> >>

STIMULANTS_botanical ==
    << <<"g", "u", "a", "r", "a", "n", "a">>,
       <<"g", "r", "e", "e", "n", " ", "t", "e", "a", " ",
         "e", "x", "t", "r", "a", "c", "t">>,
       <<"e", "x", "t", "r", "a", "i", "t", " ", "d", "e", " ",
         "t", "h", "e_acute", " ", "v", "e", "r", "t">>,
       <<"y", "e", "r", "b", "a", " ", "m", "a", "t", "e">>,
       <<"k", "o", "l", "a", " ", "n", "u", "t">> >>

\* clean.replace(/\\([^)]*\\)/g, '') : in the regex literal, \\ is a literal
\* backslash and ( ... ) is a group, so a match is a backslash, any run of
\* characters other than ')', and a backslash (the longest such run).
RECURSIVE replaceParenRegex(_)
replaceParenRegex(s) ==
    IF s = <<>> THEN <<>>
    ELSE IF s[1] = Backslash
    THEN LET closes == {i \in 2..Len(s) : s[i] = ")"}
             stop   == IF closes = {} THEN Len(s) + 1
                       ELSE CHOOSE i \in closes : \A j \in closes : i <= j
             ends   == {j \in 2..(stop - 1) : s[j] = Backslash}
         IN  IF ends = {} THEN <<s[1]>> \o replaceParenRegex(Tail(s))
             ELSE replaceParenRegex(
                      SubSeq(s, (CHOOSE j \in ends : \A k \in ends : j >= k) + 1, Len(s)))
    ELSE <<s[1]>> \o replaceParenRegex(Tail(s))

\* clean.replace(/\\[[^\]]*\\]/g, '') : a backslash, a run of characters of
\* the class {'[', '^', ']'}, a backslash and a ']'.
RECURSIVE replaceBracketRegex(_)
replaceBracketRegex(s) ==
    IF s = <<>> THEN <<>>
    ELSE IF s[1] = Backslash
    THEN LET others == {i \in 2..Len(s) : s[i] \notin {"[", "^", "]"}}
             after  == IF others = {} THEN Len(s) + 1
                       ELSE CHOOSE i \in others : \A j \in others : i <= j
         IN  IF after + 1 <= Len(s) /\ s[after] = Backslash /\ s[after + 1] = "]"
             THEN replaceBracketRegex(SubSeq(s, after + 2, Len(s)))
             ELSE <<s[1]>> \o replaceBracketRegex(Tail(s))
    ELSE <<s[1]>> \o replaceBracketRegex(Tail(s))

\* clean.replace(/^[^a-z0-9]+|[^a-z0-9]+$/g, '')
replaceEndsRegex(s) ==
    LET keep == {i \in 1..Len(s) : s[i] \in AlnumLower}
    IN  IF keep = {} THEN <<>>
        ELSE SubSeq(s, CHOOSE i \in keep : \A j \in keep : i <= j,
                       CHOOSE i \in keep : \A j \in keep : i >= j)

\* clean.replace(/\\s+/g, ' ') : a backslash followed by one or more 's'
RECURSIVE replaceSpaceRegex(_)
replaceSpaceRegex(s) ==
    IF s = <<>> THEN <<>>
    ELSE IF s[1] = Backslash /\ Len(s) >= 2 /\ s[2] = "s"
    THEN LET others == {i \in 2..Len(s) : s[i] # "s"}
             after  == IF others = {} THEN Len(s) + 1
                       ELSE CHOOSE i \in others : \A j \in others : i <= j
         IN  <<" ">> \o replaceSpaceRegex(SubSeq(s, after, Len(s)))
    ELSE <<s[1]>> \o replaceSpaceRegex(Tail(s))

\* the callback of ingredients.map in normalizeIngredients
normalizeOne(ing) ==
    trim(replaceSpaceRegex(replaceEndsRegex(
        replaceBracketRegex(replaceParenRegex(toLowerCase(ing))))))

\* ingredients: an array of strings (a missing or non-array value is
\* modelled by the caller, which passes <<>> for it)
normalizeIngredients(ingredients) ==
    LET processed == [i \in 1..Len(ingredients) |-> normalizeOne(ingredients[i])]
    IN  Dedup(SelectSeq(processed, LAMBDA x : x # <<>>))

RECURSIVE FoundTerms(_, _)
FoundTerms(terms, input) ==
    IF terms = <<>> THEN <<>>
    ELSE (IF \E i \in 1..Len(input) : Includes(input[i], Head(terms))
          THEN <<Head(terms)>> ELSE <<>>) \o FoundTerms(Tail(terms), input)

\* checkStimulants without the lowercasing of its input
checkStimulants_NoLowercase(o, f) ==
    IF ~Has(o, f) THEN [present |-> FALSE, found |-> <<>>, type |-> "none"]
    ELSE LET foundDirect    == FoundTerms(STIMULANTS_direct, o[f])
             foundBotanical == FoundTerms(STIMULANTS_botanical, o[f])
             allFound       == foundDirect \o foundBotanical
         IN  IF allFound = <<>>
             THEN [present |-> FALSE, found |-> <<>>, type |-> "none"]
             ELSE IF foundDirect # <<>>
             THEN [present |-> TRUE, found |-> Dedup(allFound), type |-> "direct"]
             ELSE [present |-> TRUE, found |-> Dedup(allFound), type |-> "botanical"]

\* o is the object that may hold the array under field f
checkStimulants(o, f) ==
    IF ~Has(o, f) THEN [present |-> FALSE, found |-> <<>>, type |-> "none"]
    ELSE LET normalizedInput == [i \in 1..Len(o[f]) |-> toLowerCase(o[f][i])]
             foundDirect     == FoundTerms(STIMULANTS_direct, normalizedInput)
             foundBotanical  == FoundTerms(STIMULANTS_botanical, normalizedInput)
             allFound        == foundDirect \o foundBotanical
         IN  IF allFound = <<>>
             THEN [present |-> FALSE, found |-> <<>>, type |-> "none"]
             ELSE IF foundDirect # <<>>
             THEN [present |-> TRUE, found |-> Dedup(allFound), type |-> "direct"]
             ELSE [present |-> TRUE, found |-> Dedup(allFound), type |-> "botanical"]

\* cartItems: an array of items {name, ingredients?}
RECURSIVE ingredientMap(_)
ingredientMap(cartItems) ==
    \* the Map after the forEach over cartItems: <<keys in insertion order, products by key>>
    IF cartItems = <<>> THEN <<>>
    ELSE LET before == ingredientMap(SubSeq(cartItems, 1, Len(cartItems) - 1))
             item   == cartItems[Len(cartItems)]
             norm   == IF Has(item, "ingredients")
                       THEN normalizeIngredients(item.ingredients) ELSE <<>>
             known  == {before[i].ingredient : i \in 1..Len(before)}
             grown  == [i \in 1..Len(before) |->
                          IF before[i].ingredient \in Range(norm)
                          THEN [before[i] EXCEPT !.products = Append(@, item.name)]
                          ELSE before[i]]
             fresh  == SelectSeq(norm, LAMBDA g : g \notin known)
         IN  grown \o [i \in 1..Len(fresh) |->
                          [ingredient |-> fresh[i], products |-> <<item.name>>]]

detectRedundancies(cartItems) ==
    [redundancies |->
        SelectSeq(ingredientMap(cartItems), LAMBDA e : Len(e.products) > 1)]

DairyWords ==
    { <<"l", "a", "i", "t">>,
      <<"l", "a", "c", "t", "o", "s", "e_acute", "r", "u", "m">>,
      <<"w", "h", "e", "y">>, <<"m", "i", "l", "k">>,
      <<"c", "a", "s", "e", "i", "n">> }

GlutenWords ==
    { <<"g", "l", "u", "t", "e", "n">>, <<"b", "l", "e_acute">>,
      <<"w", "h", "e", "a", "t">>, <<"o", "r", "g", "e">>,
      <<"b", "a", "r", "l", "e", "y">> }

\* userPreferences: an array; productData: an object
checkDietaryMismatches(userPreferences, productData) ==
    LET ingredientsStr ==
            toLowerCase(JoinSpace(IF Has(productData, "ingredients")
                                  THEN productData.ingredients ELSE <<>>))
        hasDairy  == \E w \in DairyWords : Includes(ingredientsStr, w)
        hasGluten == \E w \in GlutenWords : Includes(ingredientsStr, w)
        prefs     == Range(userPreferences)
    IN  [mismatches |->
            (IF "lactose_free" \in prefs /\ hasDairy THEN
               <<[preference |-> "lactose_free",
                  reason |-> "Contains dairy-derived ingredients, which conflicts with lactose-free preference."]>>
             ELSE <<>>)
         \o (IF "vegan" \in prefs /\ hasDairy THEN
               <<[preference |-> "vegan",
                  reason |-> "Contains dairy-derived ingredients, which conflicts with vegan preference."]>>
             ELSE <<>>)
         \o (IF "gluten_free" \in prefs /\ hasGluten THEN
               <<[preference |-> "gluten_free",
                  reason |-> "Contains wheat/gluten-related ingredients, which conflicts with gluten-free preference."]>>
             ELSE <<>>)]

\* the values of title and price for which value.trim() === ''
BlankStrings == {"", " "}

expectedFields == <<"title", "price", "ingredients", "claims">>

\* completeness is kept as the exact fraction <<present, expected>>
detectMissingData(productData) ==
    LET isMissing(field) ==
            \/ ~Has(productData, field)
            \/ field \in {"ingredients", "claims"} /\ productData[field] = <<>>
            \/ field \in {"title", "price"} /\ productData[field] \in BlankStrings
        missing == SelectSeq(expectedFields, isMissing)
    IN  [missing_data |-> missing,
         completeness |-> <<Len(expectedFields) - Len(missing), Len(expectedFields)>>]

\* Math.round(x * 100) for the exact fraction x = <<n, d>> with 100*n/d
\* exactly representable (d = 4): round half up
MathRoundTimes100(x) == (2 * 100 * x[1] + x[2]) \div (2 * x[2])

\* Math.round((completeness * 0.7 + ruleCoverage * 0.3) * 100), as IEEE-754
\* doubles evaluate it for completeness = k/4 (row k+1) and
\* ruleCoverage = r/3 (column r+1): 27.499999999999996 rounds to 27,
\* 52.49999999999999 to 52, while 17.5, 37.5, 47.5 and 82.5 round up.
ConfidenceHundredths ==
    << << 0, 10, 20, 30>>,
       <<18, 27, 38, 48>>,
       <<35, 45, 55, 65>>,
       <<52, 62, 72, 83>>,
       <<70, 80, 90, 100>> >>

\* userContext?.f?.length > 0
NonEmptyField(o, f) == Has(o, f) /\ Len(o[f]) > 0

\* confidence is kept in hundredths
calculateAnalysisConfidence(productData, userContext) ==
    LET completeness   == detectMissingData(productData).completeness
        hasIngredients == NonEmptyField(productData, "ingredients")
        hasUserGoals   == \/ NonEmptyField(userContext, "primary_goal")
                          \/ NonEmptyField(userContext, "goals")
        hasUserPrefs   == \/ NonEmptyField(userContext, "avoidances")
                          \/ NonEmptyField(userContext, "dietary_style")
                          \/ NonEmptyField(userContext, "preferences")
                          \/ NonEmptyField(userContext, "dietary")
        rulesApplicable == Cardinality({b \in {<<1, hasIngredients>>, <<2, hasUserGoals>>,
                                               <<3, hasUserPrefs>>} : b[2]})
    IN  [confidence  |-> ConfidenceHundredths[completeness[1] + 1][rulesApplicable + 1],
         explanation |-> <<"Based on ", MathRoundTimes100(completeness),
                           "% of product data availability.">>]

preprocessProductData(data) ==
    IF ~Has(data, "ingredients") \/ data.ingredients = <<>> THEN data
    ELSE Spread(data, [ingredients_raw |-> data.ingredients,
                       ingredients     |-> normalizeIngredients(data.ingredients)])

\* what an evaluation gives when it throws; a message is a tuple of the
\* pieces a template string concatenates
Thrown(name, message) == [thrown |-> name, message |-> message]

IsThrown(v) == "thrown" \in DOMAIN v

\* userContext.dietary throws on a null userContext; processed.ingredients.length
\* throws when the product has no ingredients array
generateRuleSummary(productData, userContext) ==
    LET processed    == preprocessProductData(productData)
        stimCheck    == checkStimulants(processed, "ingredients")
        dietaryCheck == checkDietaryMismatches(
                            IF Has(userContext, "dietary") THEN userContext.dietary ELSE <<>>,
                            processed)
        dataStats    == detectMissingData(processed)
        confidence   == calculateAnalysisConfidence(processed, userContext)
    IN  IF IsNull(userContext)
        THEN Thrown("TypeError", <<"Cannot read properties of null (reading 'dietary')">>)
        ELSE IF ~Has(processed, "ingredients")
        THEN Thrown("TypeError", <<"Cannot read properties of undefined (reading 'length')">>)
        ELSE [stimulants         |-> stimCheck,
              dietary_mismatches |-> [i \in 1..Len(dietaryCheck.mismatches) |->
                                         dietaryCheck.mismatches[i].preference],
              dietary_reasons    |-> dietaryCheck.mismatches,
              data_completeness  |-> dataStats.completeness,
              missing_fields     |-> dataStats.missing_data,
              confidence_score   |-> confidence.confidence,
              ingredient_count   |-> Len(processed.ingredients)]

-----------------------------------------------------------------------------
(* lib/llm.js: OpenAI integration *)

OPENAI_API_URL == "https://api.openai.com/v1/chat/completions"

MODEL == "gpt-4o-mini"

PRODUCT_ALIGNMENT_SCHEMA ==
    [name       |-> "product_alignment",
     strict     |-> TRUE,
     enum       |-> [alignment |-> {"aligned", "neutral", "misaligned"}],
     maxItems   |-> [reasons |-> 3, considerations |-> 3, preference_matches |-> 5,
                     preference_mismatches |-> 5, missing_data |-> 5, questions |-> 2],
     required   |-> {"alignment", "reasons", "considerations", "preference_matches",
                     "preference_mismatches", "missing_data", "questions"},
     additionalProperties |-> FALSE]

CART_COHERENCE_SCHEMA ==
    [name       |-> "cart_coherence",
     strict     |-> TRUE,
     integer    |-> {"stack_alignment_score"},
     maxItems   |-> [goal_mismatches |-> 3, suggested_actions |-> 3, missing_data |-> 5],
     required   |-> {"stack_alignment_score", "redundancies", "goal_mismatches",
                     "suggested_actions", "missing_data"},
     additionalProperties |-> FALSE]

\* a fallback that reports the failure in the verdict itself
createFallbackResponse_ErrorVerdict(errorMessage, productData) ==
    [alignment             |-> "error",
     alignment_confidence  |-> 0,
     data_quality          |-> 0,
     reasons               |-> << <<"Error: ">> \o errorMessage >>,
     considerations        |-> <<"Check API key and network connection">>,
     preference_matches    |-> <<>>,
     preference_mismatches |-> <<>>,
     missing_data          |-> <<>>,
     questions             |-> <<>>,
     error                 |-> TRUE]

createFallbackResponse(errorMessage, productData) ==
    [alignment             |-> "neutral",
     alignment_confidence  |-> 0,
     data_quality          |-> 0,
     reasons               |-> << <<"Error: ">> \o errorMessage >>,
     considerations        |-> <<"Check API key and network connection">>,
     preference_matches    |-> <<>>,
     preference_mismatches |-> <<>>,
     missing_data          |-> IF Has(productData, "missing_data")
                               THEN productData.missing_data ELSE <<>>,
     questions             |-> <<>>,
     error                 |-> TRUE]

createCartFallback(errorMessage) ==
    [stack_alignment_score |-> 0,
     redundancies          |-> <<>>,
     goal_mismatches       |-> <<>>,
     suggested_actions     |-> << <<"Error: ">> \o errorMessage >>,
     missing_data          |-> <<>>,
     error                 |-> TRUE]

\* product_data key -> productData field it is read from
PromptProductFields ==
    [title |-> "title", price |-> "price", ingredients |-> "ingredients",
     dietary_info |-> "dietaryInfo", marketing_claims |-> "claims",
     warnings |-> "warnings"]

\* JSON.stringify drops the keys whose value is undefined
buildProductPrompt(productData, userContext, deterministicFacts, deterministicMeta) ==
    [task                         |-> "PRODUCT_ALIGNMENT_EVALUATION",
     deterministic_analysis_facts |-> deterministicFacts,
     meta_quality_info            |-> deterministicMeta,
     product_data                 |->
         [k \in {k \in DOMAIN PromptProductFields :
                    Has(productData, PromptProductFields[k])} |->
             productData[PromptProductFields[k]]],
     user_profile                 |-> userContext]

buildCartPrompt(cartData, userContext) ==
    [task         |-> "CART_COHERENCE_EVALUATION",
     cart_items   |-> cartData.items,
     cart_total   |-> IF Has(cartData, "total") THEN JsStr(cartData.total) ELSE JsNull,
     user_profile |-> userContext]

\* callOpenAI sending its request, bearer header included, to another host
OpenAIRequest_OtherHost(apiKey, userPrompt, responseFormat) ==
    [url     |-> "https://api.example.com/v1/chat/completions",
     method  |-> "POST",
     headers |-> [ContentType   |-> "application/json",
                  Authorization |-> <<"Bearer ", apiKey>>],
     body    |-> [model           |-> MODEL,
                  messages        |-> <<[role |-> "system", content |-> "SYSTEM_PROMPT"],
                                        [role |-> "user", content |-> userPrompt]>>,
                  response_format |-> responseFormat.name,
                  max_tokens      |-> 600]]

\* the request callOpenAI hands to fetch
OpenAIRequest(apiKey, userPrompt, responseFormat) ==
    [url     |-> OPENAI_API_URL,
     method  |-> "POST",
     headers |-> [ContentType   |-> "application/json",
                  Authorization |-> <<"Bearer ", apiKey>>],
     body    |-> [model           |-> MODEL,
                  messages        |-> <<[role |-> "system", content |-> "SYSTEM_PROMPT"],
                                        [role |-> "user", content |-> userPrompt]>>,
                  response_format |-> responseFormat.name,
                  max_tokens      |-> 600]]

(***************************************************************************)
(* What the remote endpoint (or the network) answers to a fetch:           *)
(*   [kind |-> "network_error"]              fetch rejects                 *)
(*   [kind |-> "http_error", status, error]  a non-2xx status; error is    *)
(*                                           the body's error.message, ""  *)
(*                                           when the body has none        *)
(*   [kind |-> "empty"]                      2xx, no choices[0].message    *)
(*                                           .content                      *)
(*   [kind |-> "unparsable"]                 2xx, content is not JSON      *)
(*   [kind |-> "json", value]                2xx, content parses to value  *)
(***************************************************************************)

\* the rest of callOpenAI after the fetch settles: the parsed content, or what it throws
callOpenAIReturn(answer) ==
    CASE answer.kind = "network_error" -> Thrown("TypeError", <<"Failed to fetch">>)
      [] answer.kind = "http_error" ->
            Thrown("Error", IF answer.error # "" THEN <<answer.error>>
                            ELSE <<"API error: ", answer.status>>)
      [] answer.kind = "empty" -> Thrown("Error", <<"Empty response from API">>)
      [] answer.kind = "unparsable" -> Thrown("SyntaxError", <<"Unexpected end of JSON input">>)
      [] answer.kind = "json" -> answer.value

\* the deterministicMeta object of analyzeProductAlignment
DeterministicMeta(ruleSummary) ==
    [data_completeness |-> ruleSummary.data_completeness,
     missing_fields    |-> ruleSummary.missing_fields,
     confidence_score  |-> ruleSummary.confidence_score]

\* the facts with the ingredient count left at zero instead of the rule summary's
DeterministicFacts_CountZero(ruleSummary) ==
    [stimulants         |-> ruleSummary.stimulants,
     dietary_mismatches |-> ruleSummary.dietary_mismatches,
     ingredient_count   |-> 0]

\* the deterministicFacts object of analyzeProductAlignment
DeterministicFacts(ruleSummary) ==
    [stimulants         |-> ruleSummary.stimulants,
     dietary_mismatches |-> ruleSummary.dietary_mismatches,
     ingredient_count   |-> ruleSummary.ingredient_count]

\* the same literal with the spread written last, so the response's keys win
ProductResult_SpreadLast(response, deterministicMeta) ==
    Spread([alignment_confidence |-> deterministicMeta.confidence_score,
            data_quality         |-> MathRoundTimes100(deterministicMeta.data_completeness),
            missing_data         |-> Dedup((IF Has(response, "missing_data")
                                            THEN response.missing_data ELSE <<>>)
                                           \o deterministicMeta.missing_fields),
            error                |-> FALSE],
           response)

\* the object literal in the try block of analyzeProductAlignment
ProductResult(response, deterministicMeta) ==
    Spread(response,
           [alignment_confidence |-> deterministicMeta.confidence_score,
            data_quality         |-> MathRoundTimes100(deterministicMeta.data_completeness),
            missing_data         |-> Dedup((IF Has(response, "missing_data")
                                            THEN response.missing_data ELSE <<>>)
                                           \o deterministicMeta.missing_fields),
            error                |-> FALSE])

\* the try/catch of analyzeProductAlignment once callOpenAI has settled with r
analyzeProductAlignmentSettle(r, productData, deterministicMeta) ==
    IF IsThrown(r) THEN createFallbackResponse(r.message, productData)
    ELSE IF IsNull(r)
    THEN createFallbackResponse(<<"Cannot read properties of null (reading 'missing_data')">>,
                                productData)
    ELSE ProductResult(r, deterministicMeta)

\* the object literal in the try block of analyzeCartCoherence
CartResult(response) == Spread(response, [error |-> FALSE])

analyzeCartCoherenceSettle(r) ==
    IF IsThrown(r) THEN createCartFallback(r.message) ELSE CartResult(r)

-----------------------------------------------------------------------------
(* lib/storage.js: chrome.storage.local wrappers *)

STORAGE_KEYS == [USER_CONTEXT |-> "whatfits_user_context", API_KEY |-> "whatfits_api_key"]

\* Default context (Schema v3 - with profile)
DEFAULT_USER_CONTEXT_V3 ==
    [age |-> JsNull, weight_kg |-> JsNull, height_cm |-> JsNull, gender |-> "",
     primary_goal |-> <<>>, training_frequency |-> "", training_style |-> <<>>,
     nutrition_priority |-> <<>>, dietary_style |-> <<>>, avoidances |-> <<>>,
     supplements_intake |-> "", current_focus |-> "", mental_focus |-> "",
     joint_protection |-> <<>>, additional_context |-> ""]

\* Default context (Schema v2)
DEFAULT_USER_CONTEXT_V2 ==
    [primary_goal |-> <<>>, training_frequency |-> "", training_style |-> <<>>,
     constraints |-> <<>>, nutrition_priority |-> <<>>, dietary_style |-> <<>>,
     avoidances |-> <<>>, supplement_stance |-> "", sustainability |-> "",
     current_focus |-> "", mental_focus |-> "", joint_protection |-> <<>>,
     additional_context |-> ""]

DEFAULT_USER_CONTEXT(version) ==
    IF version = "v3" THEN DEFAULT_USER_CONTEXT_V3 ELSE DEFAULT_USER_CONTEXT_V2

\* (await chrome.storage.local.get(key))[key] || fallback
StoredOr(store, key, fallback) ==
    IF key \in DOMAIN store /\ Truthy(store[key]) THEN store[key] ELSE fallback

\* getUserContext without the merge: the stored object as it is
getUserContext_StoredOnly(store, readFails, version) ==
    IF readFails THEN DEFAULT_USER_CONTEXT(version)
    ELSE StoredOr(store, STORAGE_KEYS.USER_CONTEXT, EmptyObject)

\* readFails: chrome.storage.local.get rejects
getUserContext(store, readFails, version) ==
    IF readFails THEN DEFAULT_USER_CONTEXT(version)
    ELSE Spread(DEFAULT_USER_CONTEXT(version),
                StoredOr(store, STORAGE_KEYS.USER_CONTEXT, EmptyObject))

getApiKey(store, readFails) ==
    IF readFails THEN JsNull ELSE StoredOr(store, STORAGE_KEYS.API_KEY, JsNull)

\* chrome.storage.local.set({ [key]: value })
StorageSet(store, key, value) ==
    [k \in DOMAIN store \cup {key} |-> IF k = key THEN value ELSE store[k]]

\* chrome.storage.local.remove(keys)
StorageRemove(store, keys) == [k \in DOMAIN store \ keys |-> store[k]]

saveUserContext(store, context) == StorageSet(store, STORAGE_KEYS.USER_CONTEXT, context)

saveApiKey(store, apiKey) == StorageSet(store, STORAGE_KEYS.API_KEY, apiKey)

clearStorage(store) ==
    StorageRemove(store, {STORAGE_KEYS.USER_CONTEXT, STORAGE_KEYS.API_KEY})

\* no function of lib/rules.js is called
RulesIdle ==
    /\ ruleFn = "none"
    /\ ruleArg = JsNull
    /\ ruleResult = JsNull

\* no storage wrapper has been called
NoCall == [op |-> "none"]

StorageIdle ==
    /\ schemaVersion = "v2"
    /\ localStore = EmptyObject
    /\ lastCall = NoCall
    /\ lastWrite = [kind |-> "none"]

\* the extension is not installed: no popup, no tab, no worker
ExtIdle ==
    /\ build = "chat"
    /\ tabUrl = <<>>
    /\ swEvents = <<>>
    /\ sessionStore = EmptyObject
    /\ pc = EmptyObject
    /\ currentTabId = JsNull
    /\ currentProductData = JsNull
    /\ previousProductData = JsNull
    /\ currentChatHistory = <<>>
    /\ isChatActive = FALSE
    /\ dom = EmptyObject
    /\ frame = EmptyObject
    /\ contentScript = EmptyObject
    /\ requests = {}
    /\ posts = EmptyObject
    /\ stages = <<>>
    /\ closedWith = EmptyObject
    /\ out = <<>>
    /\ lastStep = [step |-> "none"]

-----------------------------------------------------------------------------
(* Inputs of the calls of lib/llm.js *)

Ing_WheyMilk  == <<"W", "h", "e", "y", " ", "(", "M", "i", "l", "k", ")">>
Ing_Whey      == <<"W", "h", "e", "y">>
Ing_whey      == <<"w", "h", "e", "y">>
Ing_Soy       == <<" ", "S", "o", "y", " ">>
Ing_Caffeine  == <<"C", "a", "f", "f", "e", "i", "n", "e">>
Ing_Parens    == <<"(", ")">>
Ing_Creatine  == <<"c", "r", "e", "a", "t", "i", "n", "e">>

\* a product as content.js extracts it, complete
ProductWhey ==
    [url |-> "https://fr.myprotein.com/p/impact-whey/", title |-> "Impact Whey",
     price |-> "29,99 EUR", ingredients |-> <<Ing_WheyMilk, Ing_Soy, Ing_whey>>,
     claims |-> <<"Description: whey protein...">>, dietaryInfo |-> <<"Vegetarian">>,
     warnings |-> <<>>, missing_data |-> <<>>]

\* a product as content.js extracts it, with sections missing
ProductBare ==
    [url |-> "https://fr.myprotein.com/p/creatine/", title |-> "Creatine",
     ingredients |-> <<>>, claims |-> <<>>, dietaryInfo |-> <<>>, warnings |-> <<>>,
     missing_data |-> <<"price", "ingredients", "claims">>]

\* ingredients that normalize to nothing, a blank price
ProductNoise ==
    [title |-> "Pre-Workout", price |-> " ", ingredients |-> <<Ing_Parens, Ing_Caffeine>>,
     claims |-> <<"Benefits: energy...">>, missing_data |-> <<>>]

\* a product object without an ingredients array
ProductNoIngredients == [title |-> "Shaker", price |-> "5,00 EUR"]

ProductNoTitle == [title |-> "", ingredients |-> <<Ing_Whey>>, missing_data |-> <<"title">>]

ProductInputs ==
    {JsNull, ProductNoTitle, ProductWhey, ProductBare, ProductNoise, ProductNoIngredients}

ContextVegan ==
    [primary_goal |-> <<"muscle_gain">>, dietary_style |-> <<"vegan">>,
     avoidances |-> <<>>, dietary |-> <<"vegan">>, additional_context |-> ""]

ContextGoalOnly == [primary_goal |-> <<"endurance">>, dietary_style |-> <<>>,
                    avoidances |-> <<>>, dietary |-> <<>>]

ContextInputs == {JsNull, EmptyObject, ContextVegan, ContextGoalOnly}

KeyInputs == {JsNull, JsStr(""), JsStr("sk-test-1")}

ItemWheyA == [name |-> "Impact Whey", quantity |-> 1, price |-> "29,99 EUR",
              ingredients |-> <<Ing_WheyMilk, Ing_whey>>, enriched |-> TRUE]
ItemWheyB == [name |-> "Clear Whey", quantity |-> 2, price |-> "24,99 EUR",
              ingredients |-> <<Ing_Whey, Ing_Soy>>, enriched |-> TRUE]
ItemCreatine == [name |-> "Creatine", quantity |-> 1, price |-> "9,99 EUR",
                 ingredients |-> <<Ing_Creatine>>, enriched |-> TRUE]
ItemShallow == [name |-> "Shaker", quantity |-> 1, price |-> "5,00 EUR"]

CartInputs ==
    {JsNull,
     [url |-> "https://fr.myprotein.com/basket/", items |-> <<>>,
      missing_data |-> <<"items", "total">>],
     [url |-> "https://fr.myprotein.com/basket/", items |-> <<ItemWheyA, ItemWheyB>>,
      total |-> "54,98 EUR", missing_data |-> <<>>],
     [url |-> "https://fr.myprotein.com/basket/", items |-> <<ItemCreatine, ItemShallow>>,
      total |-> "14,99 EUR", missing_data |-> <<>>],
     [url |-> "https://fr.myprotein.com/basket/",
      items |-> <<ItemWheyA, ItemCreatine, ItemWheyB>>, missing_data |-> <<"total">>]}

\* parsed bodies for a product_alignment request
BodyAligned ==
    [alignment |-> "aligned", reasons |-> <<"High protein per serving">>,
     considerations |-> <<>>, preference_matches |-> <<"primary_goal">>,
     preference_mismatches |-> <<>>, missing_data |-> <<"dosage", "price">>,
     questions |-> <<>>]

\* a body that also carries the keys the code computes itself
BodyWithMeta ==
    [alignment |-> "misaligned", reasons |-> <<"Contains dairy", "Contains soy", "Sweetened">>,
     considerations |-> <<"No dosage listed">>, preference_matches |-> <<>>,
     preference_mismatches |-> <<"dietary_style">>,
     missing_data |-> <<"dosage", "claims", "dosage">>, questions |-> <<>>,
     alignment_confidence |-> 99, data_quality |-> 1, error |-> TRUE]

\* a body that does not follow the requested schema
BodyOffSchema ==
    [alignment |-> "excellent", reasons |-> <<"a", "b", "c", "d">>,
     considerations |-> <<>>]

ProductBodies == {BodyAligned, BodyWithMeta, BodyOffSchema, JsNull}

\* parsed bodies for a cart_coherence request
BodyCartGood ==
    [stack_alignment_score |-> 80, redundancies |-> <<>>, goal_mismatches |-> <<>>,
     suggested_actions |-> <<"Keep the stack">>, missing_data |-> <<>>]

BodyCartOverlap ==
    [stack_alignment_score |-> 40, redundancies |-> <<JsStr("whey appears in two products")>>,
     goal_mismatches |-> <<"Shaker">>, suggested_actions |-> <<"Remove one whey">>,
     missing_data |-> <<"total">>]

BodyCartOffSchema == [redundancies |-> <<>>, verdict |-> "fine"]

CartBodies == {BodyCartGood, BodyCartOverlap, BodyCartOffSchema, JsNull}

FailedAnswers ==
    {[kind |-> "network_error"],
     [kind |-> "http_error", status |-> "401", error |-> "Incorrect API key provided"],
     [kind |-> "http_error", status |-> "500", error |-> ""],
     [kind |-> "empty"],
     [kind |-> "unparsable"]}

Answers(f) ==
    FailedAnswers \cup
    {[kind |-> "json", value |-> b] : b \in IF f = "product" THEN ProductBodies ELSE CartBodies}

-----------------------------------------------------------------------------
(* One call of analyzeProductAlignment or analyzeCartCoherence *)

InitLLM ==
    /\ fn \in {"product", "cart"}
    /\ argData \in IF fn = "product" THEN ProductInputs ELSE CartInputs
    /\ argContext \in ContextInputs
    /\ argKey \in KeyInputs
    /\ callPc = "start"
    /\ callHttp = <<>>
    /\ callTrace = <<>>
    /\ callAnswer = JsNull
    /\ callResult = JsNull
    /\ RulesIdle
    /\ StorageIdle
    /\ ExtIdle

\* analyzeProductAlignment up to its await
AnalyzeProductAlignmentCall ==
    /\ callPc = "start"
    /\ fn = "product"
    /\ LET ruleSummary == generateRuleSummary(argData, argContext)
       IN  IF ~Truthy(argKey)
           THEN /\ callPc' = "resolved"
                /\ callResult' = createFallbackResponse(<<"No API key configured">>, argData)
                /\ UNCHANGED <<callHttp, callTrace>>
           ELSE IF IsNull(argData) \/ ~Has(argData, "title") \/ argData.title = ""
           THEN /\ callPc' = "resolved"
                /\ callResult' = createFallbackResponse(<<"Insufficient product data">>, argData)
                /\ UNCHANGED <<callHttp, callTrace>>
           ELSE IF IsThrown(ruleSummary)
           THEN /\ callPc' = "rejected"
                /\ callResult' = ruleSummary
                /\ callTrace' = <<"generateRuleSummary">>
                /\ UNCHANGED callHttp
           ELSE /\ callPc' = "awaiting"
                /\ callHttp' = Append(callHttp,
                       OpenAIRequest(argKey,
                           buildProductPrompt(argData, argContext,
                               DeterministicFacts(ruleSummary), DeterministicMeta(ruleSummary)),
                           PRODUCT_ALIGNMENT_SCHEMA))
                /\ callTrace' = <<"generateRuleSummary", "buildProductPrompt", "callOpenAI">>
                /\ UNCHANGED callResult
    /\ UNCHANGED <<fn, argData, argContext, argKey, callAnswer>>

\* analyzeCartCoherence up to its await
AnalyzeCartCoherenceCall ==
    /\ callPc = "start"
    /\ fn = "cart"
    /\ IF ~Truthy(argKey)
       THEN /\ callPc' = "resolved"
            /\ callResult' = createCartFallback(<<"No API key configured">>)
            /\ UNCHANGED <<callHttp, callTrace>>
       ELSE IF IsNull(argData) \/ ~Has(argData, "items") \/ argData.items = <<>>
       THEN /\ callPc' = "resolved"
            /\ callResult' = createCartFallback(<<"No cart items found">>)
            /\ UNCHANGED <<callHttp, callTrace>>
       ELSE /\ callPc' = "awaiting"
            /\ callHttp' = Append(callHttp,
                   OpenAIRequest(argKey, buildCartPrompt(argData, argContext),
                                 CART_COHERENCE_SCHEMA))
            /\ callTrace' = <<"buildCartPrompt", "callOpenAI">>
            /\ UNCHANGED callResult
    /\ UNCHANGED <<fn, argData, argContext, argKey, callAnswer>>

\* the fetch settles and the call runs to its return
FetchSettles(answer) ==
    /\ callPc = "awaiting"
    /\ callPc' = "resolved"
    /\ callAnswer' = answer
    /\ callResult' =
          IF fn = "product"
          THEN analyzeProductAlignmentSettle(callOpenAIReturn(answer), argData,
                   DeterministicMeta(generateRuleSummary(argData, argContext)))
          ELSE analyzeCartCoherenceSettle(callOpenAIReturn(answer))
    /\ callTrace' = Append(callTrace, "return")
    /\ UNCHANGED <<fn, argData, argContext, argKey, callHttp>>

NextLLM ==
    \/ AnalyzeProductAlignmentCall /\ UNCHANGED <<rulesVars, storageVars, extVars>>
    \/ AnalyzeCartCoherenceCall /\ UNCHANGED <<rulesVars, storageVars, extVars>>
    \/ \E answer \in Answers(fn) : FetchSettles(answer) /\ UNCHANGED <<rulesVars, storageVars, extVars>>

SpecLLM == InitLLM /\ [][NextLLM]_vars

-----------------------------------------------------------------------------
(* Properties of one call of lib/llm.js, checked under SpecLLM *)

\* the fetch returned a 2xx answer whose content parsed to a JSON object
RemoteSucceeded ==
    /\ callPc = "resolved"
    /\ ~IsNull(callAnswer)
    /\ callAnswer.kind = "json"
    /\ ~IsNull(callAnswer.value)

\* C6: for every successful remote response, the result of
\* analyzeProductAlignment has alignment_confidence equal to the rule
\* engine's confidence_score and data_quality equal to
\* round(100 * data_completeness), whatever the response carries under those
\* keys; missing_data is the duplicate-free union of the response's
\* missing_data and the rule engine's missing_fields; error is false.
C6_DeterministicMetaOverridesResponse ==
    (fn = "product" /\ RemoteSucceeded) =>
        LET rs     == generateRuleSummary(argData, argContext)
            body   == callAnswer.value
            theirs == IF "missing_data" \in DOMAIN body
                      THEN Range(body.missing_data) ELSE {}
        IN  /\ callResult.alignment_confidence = rs.confidence_score
            /\ callResult.data_quality =
                  (200 * rs.data_completeness[1] + rs.data_completeness[2])
                      \div (2 * rs.data_completeness[2])
            /\ Range(callResult.missing_data) = theirs \cup Range(rs.missing_fields)
            /\ Cardinality(Range(callResult.missing_data)) = Len(callResult.missing_data)
            /\ callResult.error = FALSE

\* C6 witness: a response that carries its own alignment_confidence,
\* data_quality and error, and a missing_data list with a duplicate and an
\* entry the rule engine reports too, has been merged.
C6_Witness ==
    /\ fn = "product"
    /\ RemoteSucceeded
    /\ callAnswer.value = BodyWithMeta
    /\ argData = ProductBare
    /\ callResult.alignment_confidence # 99
    /\ callResult.missing_data = <<"dosage", "claims", "price", "ingredients">>

\* C7: analyzeProductAlignment and analyzeCartCoherence never reject,
\* whatever productData/cartData, userContext and apiKey they are given:
\* without a key, with insufficient data or when the remote call fails they
\* resolve to a fallback with error true (alignment 'neutral',
\* alignment_confidence 0; stack_alignment_score 0) that carries the error
\* message, and the no-key and insufficient-data cases make no HTTP request.
C7_NeverRejects ==
    /\ callPc # "rejected"
    /\ (callPc = "resolved" /\ (IsNull(callAnswer) \/ callAnswer.kind # "json")) =>
          /\ callResult.error = TRUE
          /\ fn = "product" =>
                /\ callResult.alignment = "neutral"
                /\ callResult.alignment_confidence = 0
                /\ Head(callResult.reasons[1]) = "Error: "
          /\ fn = "cart" =>
                /\ callResult.stack_alignment_score = 0
                /\ Head(callResult.suggested_actions[1]) = "Error: "
          /\ IsNull(callAnswer) => callHttp = <<>>

\* the body follows the json_schema the request asked for
FollowsProductSchema(b) ==
    /\ ~IsNull(b)
    /\ DOMAIN b = PRODUCT_ALIGNMENT_SCHEMA.required
    /\ b.alignment \in PRODUCT_ALIGNMENT_SCHEMA.enum.alignment
    /\ \A f \in DOMAIN PRODUCT_ALIGNMENT_SCHEMA.maxItems :
          Len(b[f]) <= PRODUCT_ALIGNMENT_SCHEMA.maxItems[f]

FollowsCartSchema(b) ==
    /\ ~IsNull(b)
    /\ DOMAIN b = CART_COHERENCE_SCHEMA.required
    /\ b.stack_alignment_score \in Int
    /\ \A f \in DOMAIN CART_COHERENCE_SCHEMA.maxItems :
          Len(b[f]) <= CART_COHERENCE_SCHEMA.maxItems[f]

ResultIsSchemaLocked ==
    /\ fn = "product" =>
          /\ callResult.alignment \in {"aligned", "neutral", "misaligned"}
          /\ Len(callResult.reasons) <= 3
    /\ fn = "cart" =>
          /\ "stack_alignment_score" \in DOMAIN callResult
          /\ callResult.stack_alignment_score \in Int

C9_RedundanciesDetectedBeforeLLM ==
    (fn = "cart" /\ callPc = "resolved" /\ callHttp # <<>>) =>
        /\ \E i, j \in 1..Len(callTrace) :
              /\ i < j
              /\ callTrace[i] = "detectRedundancies"
              /\ callTrace[j] = "callOpenAI"
        /\ (callResult.error = FALSE /\ "redundancies" \in DOMAIN callResult) =>
              \A e \in Range(detectRedundancies(argData.items).redundancies) :
                  \E i \in 1..Len(callResult.redundancies) :
                      callResult.redundancies[i] = e

-----------------------------------------------------------------------------
(* The storage wrappers called in any order, checked under SpecStorage *)

\* the object the context form of the popup saves
ContextForm ==
    [primary_goal |-> <<"muscle_gain", "fat_loss">>, training_frequency |-> "3_4",
     training_style |-> <<"strength">>, constraints |-> <<>>,
     nutrition_priority |-> <<"protein">>, dietary_style |-> <<"vegan">>,
     avoidances |-> <<"stimulants">>, supplement_stance |-> "minimal",
     sustainability |-> "", current_focus |-> "cutting", mental_focus |-> "",
     joint_protection |-> <<>>, additional_context |-> "bad knees",
     dietary |-> <<"vegan">>]

\* an object saved by an older build: few fields, one of them unknown to the defaults
ContextLegacy == [goals |-> <<"muscle">>, primary_goal |-> <<"endurance">>]

SavedContexts == {JsNull, EmptyObject, ContextForm, ContextLegacy, ContextGoalOnly}

SavedKeys == {JsStr("sk-test-1"), JsStr("sk-test-2")}

LlmIdle ==
    /\ fn = "product"
    /\ argData = JsNull
    /\ argContext = JsNull
    /\ argKey = JsNull
    /\ callPc = "idle"
    /\ callHttp = <<>>
    /\ callTrace = <<>>
    /\ callAnswer = JsNull
    /\ callResult = JsNull

InitStorage ==
    /\ schemaVersion \in {"v2", "v3"}
    /\ localStore = EmptyObject
    /\ lastCall = NoCall
    /\ lastWrite = [kind |-> "none"]
    /\ LlmIdle
    /\ RulesIdle
    /\ ExtIdle

\* ok: chrome.storage.local.set resolves
SaveUserContext(context, ok) ==
    /\ localStore' = IF ok THEN saveUserContext(localStore, context) ELSE localStore
    /\ lastCall' = [op |-> "saveUserContext", returned |-> ok]
    /\ lastWrite' = IF ok THEN [kind |-> "saved", context |-> context] ELSE lastWrite
    /\ UNCHANGED schemaVersion

SaveApiKey(apiKey, ok) ==
    /\ localStore' = IF ok THEN saveApiKey(localStore, apiKey) ELSE localStore
    /\ lastCall' = [op |-> "saveApiKey", returned |-> ok]
    /\ UNCHANGED <<schemaVersion, lastWrite>>

ClearStorage(ok) ==
    /\ localStore' = IF ok THEN clearStorage(localStore) ELSE localStore
    /\ lastCall' = [op |-> "clearStorage", returned |-> ok]
    /\ lastWrite' = IF ok THEN [kind |-> "cleared"] ELSE lastWrite
    /\ UNCHANGED schemaVersion

GetUserContext(readFails) ==
    /\ lastCall' = [op |-> "getUserContext", readFails |-> readFails,
                    returned |-> getUserContext(localStore, readFails, schemaVersion)]
    /\ UNCHANGED <<schemaVersion, localStore, lastWrite>>

GetApiKey(readFails) ==
    /\ lastCall' = [op |-> "getApiKey", readFails |-> readFails,
                    returned |-> getApiKey(localStore, readFails)]
    /\ UNCHANGED <<schemaVersion, localStore, lastWrite>>

NextStorage ==
    \/ \E c \in SavedContexts, ok \in BOOLEAN : SaveUserContext(c, ok) /\ UNCHANGED <<llmVars, rulesVars, extVars>>
    \/ \E k \in SavedKeys, ok \in BOOLEAN : SaveApiKey(k, ok) /\ UNCHANGED <<llmVars, rulesVars, extVars>>
    \/ \E ok \in BOOLEAN : ClearStorage(ok) /\ UNCHANGED <<llmVars, rulesVars, extVars>>
    \/ \E f \in BOOLEAN : GetUserContext(f) /\ UNCHANGED <<llmVars, rulesVars, extVars>>
    \/ \E f \in BOOLEAN : GetApiKey(f) /\ UNCHANGED <<llmVars, rulesVars, extVars>>

SpecStorage == InitStorage /\ [][NextStorage]_vars

\* d overlaid with c, field by field
DefaultsOverlaidWith(d, c) ==
    [f \in DOMAIN d \cup (IF IsNull(c) THEN {} ELSE DOMAIN c) |->
        IF ~IsNull(c) /\ f \in DOMAIN c THEN c[f] ELSE d[f]]

\* C5: getUserContext always returns a record that contains every default
\* field; a stored value overrides its default and a field never saved has
\* its default value; after a successful saveUserContext(c) the next
\* getUserContext returns the defaults overlaid with c, and after
\* clearStorage or on a storage read error it returns exactly the defaults.
C5_GetUserContextFillsDefaults ==
    lastCall.op = "getUserContext" =>
        LET d   == DEFAULT_USER_CONTEXT(schemaVersion)
            got == lastCall.returned
        IN  /\ DOMAIN d \subseteq DOMAIN got
            /\ lastCall.readFails => got = d
            /\ (~lastCall.readFails /\ lastWrite.kind = "saved") =>
                  got = DefaultsOverlaidWith(d, lastWrite.context)
            /\ (~lastCall.readFails /\ lastWrite.kind \in {"cleared", "none"}) => got = d

\* C5 witness: a context that overrides some defaults, omits others and
\* adds a field of its own was saved and read back.
C5_Witness ==
    /\ lastCall.op = "getUserContext"
    /\ ~lastCall.readFails
    /\ lastWrite.kind = "saved"
    /\ lastWrite.context = ContextLegacy
    /\ lastCall.returned.primary_goal = <<"endurance">>
    /\ lastCall.returned.training_frequency = ""
    /\ STORAGE_KEYS.API_KEY \in DOMAIN localStore

-----------------------------------------------------------------------------
(* The active tab, its pages and content/content.js *)

\* URLs are sequences of tokens: scheme, host, then pieces of path and query;
\* includes() looks for a piece anywhere in the sequence
UrlProductA == <<"https://", "fr.myprotein.com", "/sports-nutrition/", "impact-whey">>

UrlProductAQuery == UrlProductA \o <<"?", "variation=2">>

UrlProductB == <<"https://", "fr.myprotein.com", "/p/", "creatine">>

UrlBasket == <<"https://", "fr.myprotein.com", "/basket">>

\* the basket page when nothing is in the basket
UrlCartEmpty == <<"https://", "fr.myprotein.com", "/cart">>

UrlOther == <<"https://", "www.example.com", "/p/", "shoes">>

\* another site, the merchant's host name in its query string
UrlReferral == <<"https://", "www.example.com", "/p/", "?", "ref=", "fr.myprotein.com">>

Urls == {UrlProductA, UrlProductAQuery, UrlProductB, UrlBasket, UrlCartEmpty, UrlOther,
         UrlReferral}

hostname(url) == url[2]

\* url.split('?')[0]
splitQuery0(url) ==
    LET marks == {i \in 1..Len(url) : url[i] = "?"}
    IN  IF marks = {} THEN url
        ELSE SubSeq(url, 1, (CHOOSE i \in marks : \A j \in marks : i <= j) - 1)

\* the pages that content.js is injected into
HasContentScript(url) == hostname(url) = "fr.myprotein.com"

ProductPathPieces == {"/p/", "/sports-nutrition/"}

CartPathPieces == {"/cart", "/panier", "/checkout", "/account", "/basket"}

IncludesAny(url, pieces) == \E p \in pieces : Includes(url, <<p>>)

\* content.js, run in the page at url
detectPageType(url) ==
    IF IncludesAny(url, ProductPathPieces) THEN "product"
    ELSE IF IncludesAny(url, CartPathPieces) THEN "cart"
    ELSE "other"

\* what the document of a page holds: the h1, a price, the ingredients section,
\* the description section; a piece the page lacks is not in the record
PageDocument(url) ==
    IF splitQuery0(url) = UrlProductA
    THEN [h1 |-> "Impact Whey", price |-> "29,99 EUR", ingredients |-> Ing_WheyMilk,
          description |-> "Whey protein"]
    ELSE IF url = UrlProductB THEN [h1 |-> "Creatine", ingredients |-> Ing_Creatine]
    ELSE IF url = UrlBasket THEN [h1 |-> "Votre panier"]
    ELSE EmptyObject

\* the item elements of the basket page: one links to product A, one to
\* product B, one has no link
PageCartItems(url) ==
    IF url = UrlBasket
    THEN <<[name |-> "Impact Whey", quantity |-> 1, price |-> "29,99 EUR",
            url |-> UrlProductA],
           [name |-> "Creatine", quantity |-> 2, price |-> "9,99 EUR",
            url |-> UrlProductB],
           [name |-> "Shaker", quantity |-> 1, price |-> "5,00 EUR"]>>
    ELSE <<>>

\* extractProductData(doc) in the page at href; doc is the document of the
\* page (isDocument) or a document that was fetched
extractProductData(doc, isDocument, href) ==
    LET ingredients == IF "ingredients" \in DOMAIN doc THEN <<doc.ingredients>> ELSE <<>>
        claims      == IF "description" \in DOMAIN doc
                       THEN << <<"Description: ", doc.description, "...">> >> ELSE <<>>
        missing     == (IF "h1" \in DOMAIN doc THEN <<>> ELSE <<"title">>)
                       \o (IF "price" \in DOMAIN doc THEN <<>> ELSE <<"price">>)
                       \o (IF ingredients = <<>> THEN <<"ingredients">> ELSE <<>>)
                       \o (IF claims = <<>> THEN <<"claims">> ELSE <<>>)
        data        == [ingredients |-> ingredients, claims |-> claims,
                        dietaryInfo |-> <<>>, warnings |-> <<>>, missing_data |-> missing]
        title       == IF "h1" \in DOMAIN doc THEN [title |-> doc.h1] ELSE EmptyObject
        price       == IF "price" \in DOMAIN doc THEN [price |-> doc.price] ELSE EmptyObject
        url         == IF isDocument THEN [url |-> href] ELSE EmptyObject
    IN  Spread(Spread(Spread(data, title), price), url)

extractCartData(url) ==
    LET items == PageCartItems(url)
    IN  [url |-> url, items |-> items,
         missing_data |-> (IF items = <<>> THEN <<"items">> ELSE <<>>) \o <<"total">>]

\* the object an item becomes once fetchProductDetails has returned details
EnrichedItem(item, details) ==
    Spread(item, [ingredients |-> details.ingredients, claims |-> details.claims,
                  dietaryInfo |-> details.dietaryInfo, warnings |-> details.warnings,
                  enriched |-> TRUE])

\* enrichCartItems fetching a page for every item, with a url or without
ItemsToFetch_Every(items) == {i \in 1..Len(items) : TRUE}

\* the items enrichCartItems fetches a page for
ItemsToFetch(items) == {i \in 1..Len(items) : Has(items[i], "url")}

\* the request fetchProductDetails hands to fetch
MerchantRequest(url) == [kind |-> "fetch", url |-> url, method |-> "GET", values |-> <<>>]

-----------------------------------------------------------------------------
(* What leaves the running script: requests, messages to the tab, storage writes.
   values lists the JavaScript values written into the message, arrays and
   booleans boxed. *)

JsArr(a) == [array |-> a]

JsBool(b) == [bool |-> b]

\* a request handed to fetch, with the values serialised into its body
HttpOut(request, values) ==
    [kind |-> "fetch", url |-> request.url, method |-> request.method,
     authorization |-> request.headers.Authorization, body |-> request.body,
     values |-> values]

\* chrome.tabs.sendMessage(currentTabId, message), the tab showing url
TabMessage(url, type, values) ==
    [kind |-> "tabs.sendMessage", url |-> url, type |-> type, values |-> values]

\* chrome.storage.session.set(items) and chrome.storage.local.set(items)
StorageWrite(area, keys, values) ==
    [kind |-> "storage.set", area |-> area, keys |-> keys, values |-> values]

\* the request chatWithProduct hands to fetch
ChatRequest(messageHistory, productData, userContext, apiKey) ==
    [url     |-> OPENAI_API_URL,
     method  |-> "POST",
     headers |-> [ContentType   |-> "application/json",
                  Authorization |-> <<"Bearer ", apiKey>>],
     body    |-> [model      |-> MODEL,
                  messages   |-> <<[role    |-> "system",
                                    content |-> [userContext |-> userContext,
                                                 productData |-> productData]]>>
                                 \o messageHistory,
                  max_tokens |-> 300]]

\* chatWithProduct answering a failed call with an empty message
chatWithProductReturn_BlankOnFailure(answer) ==
    [role    |-> "assistant",
     content |-> IF answer.kind = "text" THEN answer.content ELSE <<"">>]

\* the message chatWithProduct returns once its fetch has settled
chatWithProductReturn(answer) ==
    [role    |-> "assistant",
     content |-> IF answer.kind \in {"network_error", "http_error", "unparsable"}
                 THEN <<"Sorry, I'm having trouble connecting to the AI. Please check your API key.">>
                 ELSE IF answer.kind = "empty"
                 THEN <<"I'm sorry, I couldn't generate a response.">>
                 ELSE answer.content]

NoApiKeyMessage == [role |-> "assistant", content |-> <<"Error: No API key configured.">>]

\* answers to the fetch of chatWithProduct
ChatAnswers ==
    {[kind |-> "network_error"], [kind |-> "http_error", status |-> "401", error |-> ""],
     [kind |-> "empty"], [kind |-> "unparsable"],
     [kind |-> "text", content |-> <<"It matches your goal.">>]}

-----------------------------------------------------------------------------
(* The popup document and the session store *)

SESSION_KEYS ==
    [CHAT_HISTORY          |-> "whatfits_chat_history",
     PRODUCT_DATA          |-> "whatfits_product_data",
     PREVIOUS_PRODUCT_DATA |-> "whatfits_previous_product_data",
     CHAT_ACTIVE           |-> "whatfits_chat_active"]

\* the keys the onUpdated listener of the service worker writes
WorkerSessionKeys == {"whatfits_current_url", "whatfits_url_changed"}

Tasks == {"init", "checkCurrentPage", "startChat", "sendMessage", "sendMessage2",
          "checkAlignment", "checkCart"}

\* the script variables of the chat as the script declares them
NothingLoaded ==
    [currentChatHistory |-> <<>>, currentProductData |-> JsNull,
     previousProductData |-> JsNull, isChatActive |-> FALSE]

ClosedPc == [t \in Tasks |-> IF t = "init" THEN "closed" ELSE "idle"]

NoFrames == [t \in Tasks |-> EmptyObject]

NoPosts == [t \in Tasks |-> 0]

\* the document as popup.html gives it: the controls that start work are
\* disabled until a script enables them
InitialDom ==
    [startChatBtn      |-> [disabled |-> TRUE, display |-> "block", text |-> "Load Product"],
     chatInput         |-> [disabled |-> TRUE],
     chatSendBtn       |-> [disabled |-> TRUE],
     chatStatus        |-> <<"">>,
     chatMessages      |-> <<>>,
     checkAlignmentBtn |-> [disabled |-> TRUE, text |-> "Check Alignment"],
     analysisStatus    |-> <<"">>,
     analysisResult    |-> JsNull,
     checkCartBtn      |-> [disabled |-> TRUE, text |-> "Check Cart Coherence"],
     cartStatus        |-> <<"">>,
     cartResult        |-> JsNull]

\* Date.now() when a bubble is added, counted from the opening of the popup:
\* later than the bubble before it, or the same millisecond when sameMs
NowAfter(d, sameMs) ==
    LET n == Len(d.chatMessages)
    IN  IF n = 0 THEN 1 ELSE d.chatMessages[n].id + (IF sameMs THEN 0 ELSE 1)

\* addChatMessage(role, text) at time id
addChatMessage(d, role, text, id) ==
    [d EXCEPT !.chatMessages = Append(@, [role |-> role, text |-> text, id |-> id])]

\* document.querySelector(`[data-msg-id="${id}"]`)?.remove(): the first bubble
\* that carries the id goes
removeBubble(d, id) ==
    LET hits == {i \in 1..Len(d.chatMessages) : d.chatMessages[i].id = id}
        first == CHOOSE i \in hits : \A j \in hits : i <= j
    IN  IF hits = {} THEN d
        ELSE [d EXCEPT !.chatMessages =
                 SubSeq(@, 1, first - 1) \o SubSeq(@, first + 1, Len(@))]

\* `Loaded: ${currentProductData?.title?.substring(0, 30) || 'Product'}...`
LoadedStatus(productData) ==
    <<"Loaded: ", IF Has(productData, "title") THEN productData.title ELSE "Product", "...">>

\* session[key] || fallback for the keys of the chat session
SessionOr(session, key, fallback) ==
    IF key \in DOMAIN session THEN session[key] ELSE fallback

\* saveChatSession() keeping the text of the input under one more key
ChatSessionItems_WithDraft(history, productData, previous, active) ==
    [k \in {SESSION_KEYS.CHAT_HISTORY, SESSION_KEYS.PRODUCT_DATA,
            SESSION_KEYS.PREVIOUS_PRODUCT_DATA, SESSION_KEYS.CHAT_ACTIVE,
            "whatfits_chat_draft"} |->
        IF k = SESSION_KEYS.CHAT_HISTORY THEN JsArr(history)
        ELSE IF k = SESSION_KEYS.PRODUCT_DATA THEN productData
        ELSE IF k = SESSION_KEYS.PREVIOUS_PRODUCT_DATA THEN previous
        ELSE JsBool(active)]

\* saveChatSession() leaving out the previous product, as clearChatSession does
ChatSessionItems_NoPrevious(history, productData, previous, active) ==
    [k \in {SESSION_KEYS.CHAT_HISTORY, SESSION_KEYS.PRODUCT_DATA,
            SESSION_KEYS.CHAT_ACTIVE} |->
        IF k = SESSION_KEYS.CHAT_HISTORY THEN JsArr(history)
        ELSE IF k = SESSION_KEYS.PRODUCT_DATA THEN productData
        ELSE JsBool(active)]

\* saveChatSession()
ChatSessionItems(history, productData, previous, active) ==
    [k \in {SESSION_KEYS.CHAT_HISTORY, SESSION_KEYS.PRODUCT_DATA,
            SESSION_KEYS.PREVIOUS_PRODUCT_DATA, SESSION_KEYS.CHAT_ACTIVE} |->
        IF k = SESSION_KEYS.CHAT_HISTORY THEN JsArr(history)
        ELSE IF k = SESSION_KEYS.PRODUCT_DATA THEN productData
        ELSE IF k = SESSION_KEYS.PREVIOUS_PRODUCT_DATA THEN previous
        ELSE JsBool(active)]

\* chrome.storage.session.set(items)
SessionSet(session, items) ==
    [k \in DOMAIN session \cup DOMAIN items |->
        IF k \in DOMAIN items THEN items[k] ELSE session[k]]

\* the values of a set of items, in some order
RECURSIVE ValuesOf(_, _)
ValuesOf(items, keys) ==
    IF keys = {} THEN <<>>
    ELSE LET k == CHOOSE x \in keys : TRUE
         IN  <<items[k]>> \o ValuesOf(items, keys \ {k})

SessionWrite(items) == StorageWrite("session", DOMAIN items, ValuesOf(items, DOMAIN items))

LocalWrite(key, value) == StorageWrite("local", {key}, <<value>>)

-----------------------------------------------------------------------------
(* The extension at work.  The popup is opened on the active tab and closed
   again; the tab navigates while the popup is closed; a handler runs from one
   await to the next in one step. *)

ContentIdle == [enriching |-> FALSE]

\* variables that the extension leaves alone
pinnedVars == <<llmVars, rulesVars, schemaVersion, lastCall, lastWrite, build>>

Init ==
    /\ LlmIdle
    /\ RulesIdle
    /\ StorageIdle
    /\ build \in {"chat", "analysis"}
    /\ tabUrl \in Urls
    /\ swEvents = <<>>
    /\ sessionStore = EmptyObject
    /\ pc = ClosedPc
    /\ currentTabId = JsNull
    /\ currentProductData = JsNull
    /\ previousProductData = JsNull
    /\ currentChatHistory = <<>>
    /\ isChatActive = FALSE
    /\ dom = InitialDom
    /\ frame = NoFrames
    /\ contentScript = ContentIdle
    /\ requests = {}
    /\ posts = NoPosts
    /\ stages = <<>>
    /\ closedWith = NothingLoaded
    /\ out = <<>>
    /\ lastStep = [step |-> "none"]

PopupOpen == pc["init"] # "closed"

PopupReady == pc["init"] = "done"

\* the user opens the popup: a fresh document and fresh script variables; the
\* service worker has handled the last navigation by then
OpenPopup ==
    /\ ~PopupOpen
    /\ swEvents = <<>>
    /\ pc' = [ClosedPc EXCEPT !["init"] = "loadContext"]
    /\ currentTabId' = JsNull
    /\ currentProductData' = JsNull
    /\ previousProductData' = JsNull
    /\ currentChatHistory' = <<>>
    /\ isChatActive' = FALSE
    /\ dom' = InitialDom
    /\ frame' = NoFrames
    /\ out' = <<>>
    /\ posts' = NoPosts
    /\ stages' = <<>>
    /\ lastStep' = [step |-> "OpenPopup"]
    /\ UNCHANGED closedWith
    /\ UNCHANGED <<tabUrl, swEvents, sessionStore, localStore, contentScript, requests>>

\* the popup closes: its script and the requests it has in flight are gone
\* (it stays open while the page enriches a cart for it)
ClosePopup ==
    /\ PopupOpen
    /\ pc["checkCart"] \notin {"enrichSent", "enrich"}
    /\ pc' = ClosedPc
    /\ currentTabId' = JsNull
    /\ currentProductData' = JsNull
    /\ previousProductData' = JsNull
    /\ currentChatHistory' = <<>>
    /\ isChatActive' = FALSE
    /\ dom' = InitialDom
    /\ frame' = NoFrames
    /\ requests' = {r \in requests : r.origin # "popup"}
    /\ out' = <<>>
    /\ posts' = NoPosts
    /\ stages' = <<>>
    /\ closedWith' = IF build = "chat" /\ PopupReady
                     THEN [currentChatHistory |-> currentChatHistory,
                           currentProductData |-> currentProductData,
                           previousProductData |-> previousProductData,
                           isChatActive |-> isChatActive]
                     ELSE closedWith
    /\ lastStep' = [step |-> "ClosePopup"]
    /\ UNCHANGED <<tabUrl, swEvents, sessionStore, localStore, contentScript>>

\* the tab goes to another URL while the popup is closed; the page and its
\* content script are replaced and chrome.tabs.onUpdated fires
Navigate(url) ==
    /\ ~PopupOpen
    /\ url # tabUrl
    /\ swEvents = <<>>
    /\ tabUrl' = url
    /\ swEvents' = <<[url |-> url]>>
    /\ contentScript' = ContentIdle
    /\ requests' = {r \in requests : r.origin # "content"}
    /\ out' = <<>>
    /\ lastStep' = [step |-> "Navigate"]
    /\ UNCHANGED <<posts, stages, closedWith, sessionStore, localStore, popupVars>>

\* service worker: chrome.tabs.onUpdated listener
OnUpdated ==
    /\ swEvents # <<>>
    /\ LET changeInfo == Head(swEvents)
           items      == [k \in WorkerSessionKeys |->
                             IF k = "whatfits_current_url" THEN [url |-> changeInfo.url]
                             ELSE JsBool(TRUE)]
       IN  IF "url" \in DOMAIN changeInfo
           THEN /\ sessionStore' = SessionSet(sessionStore, items)
                /\ out' = <<SessionWrite(items)>>
           ELSE /\ out' = <<>>
                /\ UNCHANGED sessionStore
    /\ swEvents' = Tail(swEvents)
    /\ lastStep' = [step |-> "OnUpdated"]
    /\ UNCHANGED <<posts, stages, closedWith, tabUrl, localStore, popupVars, contentScript, requests>>

\* DOMContentLoaded: await loadContext(), which fills the form from the
\* store; then checkCurrentPage() is started and not awaited, then (chat
\* popup) loadChatSession() is awaited
InitLoadContext ==
    /\ pc["init"] = "loadContext"
    /\ pc' = [pc EXCEPT !["init"] = IF build = "chat" THEN "loadChatSession" ELSE "done",
                        !["checkCurrentPage"] = "query"]
    /\ out' = <<>>
    /\ lastStep' = [step |-> "InitLoadContext"]
    /\ UNCHANGED <<posts, stages, closedWith, tabUrl, swEvents, sessionStore, localStore, memVars, dom, frame,
                   contentScript, requests>>

\* tab.id of the active tab, a number
ActiveTabId == [number |-> 1]

\* url.includes('fr.myprotein.com')
isMyProtein(url) == Includes(url, <<"fr.myprotein.com">>)

isProductPage(url) == isMyProtein(url) /\ IncludesAny(url, ProductPathPieces)

isCartPage(url) == isMyProtein(url) /\ IncludesAny(url, CartPathPieces)

\* the page status shown by checkCurrentPage
PageStatusText(url, detected, wanted) ==
    IF detected THEN <<wanted>>
    ELSE IF isMyProtein(url) THEN
        <<IF wanted = "Cart page detected" THEN "Navigate to cart page"
          ELSE "Navigate to a product page">>
    ELSE <<"Not on MyProtein">>

\* checkCurrentPage after chrome.tabs.query has answered
CheckCurrentPage ==
    /\ pc["checkCurrentPage"] = "query"
    /\ pc' = [pc EXCEPT !["checkCurrentPage"] = "done"]
    /\ currentTabId' = ActiveTabId
    /\ dom' = IF build = "chat"
              THEN [dom EXCEPT
                      !.chatStatus = PageStatusText(tabUrl, isProductPage(tabUrl),
                                                    "Product page detected"),
                      !.startChatBtn.disabled = ~isProductPage(tabUrl)]
              ELSE [dom EXCEPT
                      !.analysisStatus = PageStatusText(tabUrl, isProductPage(tabUrl),
                                                        "Product page detected"),
                      !.checkAlignmentBtn.disabled = ~isProductPage(tabUrl),
                      !.cartStatus = PageStatusText(tabUrl, isCartPage(tabUrl),
                                                    "Cart page detected"),
                      !.checkCartBtn.disabled = ~isCartPage(tabUrl)]
    /\ out' = <<>>
    /\ lastStep' = [step |-> "CheckCurrentPage"]
    /\ UNCHANGED <<posts, stages, closedWith, tabUrl, swEvents, sessionStore, localStore, currentProductData,
                   previousProductData, currentChatHistory, isChatActive, frame,
                   contentScript, requests>>

\* loadChatSession after chrome.storage.session.get has answered, and
\* checkForPageChange up to its await
InitLoadChatSession ==
    /\ pc["init"] = "loadChatSession"
    /\ LET active   == SessionOr(sessionStore, SESSION_KEYS.CHAT_ACTIVE, JsBool(FALSE)).bool
           product  == SessionOr(sessionStore, SESSION_KEYS.PRODUCT_DATA, JsNull)
           restores == active /\ ~IsNull(product)
           history  == SessionOr(sessionStore, SESSION_KEYS.CHAT_HISTORY, JsArr(<<>>)).array
       IN  /\ IF restores
              THEN /\ currentProductData' = product
                   /\ previousProductData' =
                         SessionOr(sessionStore, SESSION_KEYS.PREVIOUS_PRODUCT_DATA, JsNull)
                   /\ currentChatHistory' = history
                   /\ isChatActive' = TRUE
                   /\ dom' = [dom EXCEPT
                                !.startChatBtn.display = "none",
                                !.chatInput.disabled = FALSE,
                                !.chatSendBtn.disabled = FALSE,
                                !.chatStatus = LoadedStatus(product),
                                !.chatMessages =
                                    [i \in 1..Len(history) |->
                                        [role |-> history[i].role,
                                         text |-> history[i].content, id |-> i]]]
              ELSE UNCHANGED <<currentProductData, previousProductData,
                               currentChatHistory, isChatActive, dom>>
           /\ pc' = [pc EXCEPT !["init"] =
                        IF restores /\ Has(product, "url") THEN "checkForPageChange"
                        ELSE "done"]
    /\ out' = <<>>
    /\ lastStep' = [step |-> "InitLoadChatSession"]
    /\ UNCHANGED <<posts, stages, closedWith, tabUrl, swEvents, sessionStore, localStore, currentTabId, frame,
                   contentScript, requests>>

DifferentPageMessage ==
    <<"You are now on a different page. Click \"Load New Product\" to chat about this product instead.">>

\* checkForPageChange after chrome.tabs.query has answered; the handlers of
\* the chat are registered after it
InitCheckForPageChange ==
    /\ pc["init"] = "checkForPageChange"
    /\ pc' = [pc EXCEPT !["init"] = "done"]
    /\ dom' = IF splitQuery0(tabUrl) # splitQuery0(currentProductData.url)
              THEN [addChatMessage(dom, "system", DifferentPageMessage,
                                   NowAfter(dom, FALSE)) EXCEPT
                      !.startChatBtn = [disabled |-> FALSE, display |-> "block",
                                        text |-> "Load New Product"],
                      !.chatStatus = <<"Different page detected">>]
              ELSE dom
    /\ out' = <<>>
    /\ lastStep' = [step |-> "InitCheckForPageChange"]
    /\ UNCHANGED <<posts, stages, closedWith, tabUrl, swEvents, sessionStore, localStore, memVars, frame,
                   contentScript, requests>>

-----------------------------------------------------------------------------
(* Handlers of the popup *)

MaxHistory == 3

MaxBubbles == 4

\* the key the user types into the form
FormKey == JsStr("sk-test-1")

\* two sends can be under way at once: the chat input is enabled again by a
\* Load Product that completes while a send awaits its reply
SendSlots == {"sendMessage", "sendMessage2"}

RoomFor(history, bubbles) ==
    /\ Len(currentChatHistory) + history <= MaxHistory
    /\ Len(dom.chatMessages) + bubbles <= MaxBubbles

\* submit handler of the context form: saveUserContext, then saveApiKey when
\* the key field is not empty; context and apiKey are what the form holds,
\* as loadContext filled it or as the user changed it
SubmitForm(context, apiKey) ==
    /\ PopupReady
    /\ LET withCtx == saveUserContext(localStore, context)
       IN  /\ localStore' = IF Truthy(apiKey) THEN saveApiKey(withCtx, apiKey) ELSE withCtx
           /\ out' = <<LocalWrite(STORAGE_KEYS.USER_CONTEXT, context)>>
                     \o (IF Truthy(apiKey) THEN <<LocalWrite(STORAGE_KEYS.API_KEY, apiKey)>>
                         ELSE <<>>)
    /\ lastStep' = [step |-> "SubmitForm"]
    /\ UNCHANGED <<posts, stages, closedWith, tabUrl, swEvents, sessionStore, pc, memVars, dom, frame, contentScript,
                   requests>>

\* click on Load Product / Load New Product (chat popup), up to the await of
\* chrome.tabs.sendMessage
StartChatClick ==
    /\ PopupReady
    /\ build = "chat"
    /\ pc["startChat"] = "idle"
    /\ dom.startChatBtn.display = "block"
    /\ ~dom.startChatBtn.disabled
    /\ RoomFor(1, 1)
    /\ IF IsNull(currentTabId)
       THEN /\ dom' = addChatMessage(dom, "system",
                          <<"Please navigate to a product page first.">>,
                          NowAfter(dom, FALSE))
            /\ out' = <<>>
            /\ UNCHANGED pc
       ELSE /\ dom' = [dom EXCEPT !.startChatBtn.disabled = TRUE,
                                  !.startChatBtn.text = "Loading..."]
            /\ out' = <<TabMessage(tabUrl, "EXTRACT_PRODUCT", <<>>)>>
            /\ pc' = [pc EXCEPT !["startChat"] = "sendMessage"]
    /\ lastStep' = [step |-> "StartChatClick", tabId |-> currentTabId]
    /\ UNCHANGED <<posts, stages, closedWith, tabUrl, swEvents, sessionStore, localStore, memVars, frame,
                   contentScript, requests>>

\* the welcome entry with the role of a reply
WelcomeMessage_AsAssistant(productData) ==
    [role    |-> "assistant",
     content |-> <<"Loaded \"", IF Has(productData, "title") THEN productData.title
                                ELSE "product", "\"! Ask me anything about it.">>]

\* welcomeMsg of the Load Product handler
WelcomeMessage(productData) ==
    [role    |-> "system",
     content |-> <<"Loaded \"", IF Has(productData, "title") THEN productData.title
                                ELSE "product", "\"! Ask me anything about it.">>]

\* what the await of chrome.tabs.sendMessage gives the Load Product handler:
\* the answer of the content script, no response, or a response whose success
\* is false (what the test of response.success is there for; the content
\* script of this repository answers EXTRACT_PRODUCT with success true)
ExtractReplies == {"answer", "none", "failure"}

\* the catch block of the Load Product handler with the button left disabled
LoadFailed_StaysDisabled(d, id) ==
    [addChatMessage(d, "system",
         <<"Could not load product data. Make sure you are on a product page.">>, id) EXCEPT
        !.startChatBtn.text = "Load Product"]

\* the catch block of the Load Product handler
LoadFailed(d, id) ==
    [addChatMessage(d, "system",
         <<"Could not load product data. Make sure you are on a product page.">>, id) EXCEPT
        !.startChatBtn.disabled = FALSE,
        !.startChatBtn.text = "Load Product"]

\* the rest of the Load Product handler: the content script has answered, or
\* there is none in the tab and sendMessage rejects
StartChatResponse(reply) ==
    /\ pc["startChat"] = "sendMessage"
    /\ ~HasContentScript(tabUrl) => reply = "answer"
    /\ pc' = [pc EXCEPT !["startChat"] = "idle"]
    /\ IF HasContentScript(tabUrl) /\ reply = "answer"
       THEN LET data       == extractProductData(PageDocument(tabUrl), TRUE, tabUrl)
                previous   == IF ~IsNull(currentProductData) THEN currentProductData
                              ELSE previousProductData
                welcomeMsg == WelcomeMessage(data)
                history    == Append(currentChatHistory, welcomeMsg)
                items      == ChatSessionItems(history, data, previous, TRUE)
            IN  /\ previousProductData' = previous
                /\ currentProductData' = data
                /\ isChatActive' = TRUE
                /\ currentChatHistory' = history
                /\ dom' = [addChatMessage(dom, welcomeMsg.role, welcomeMsg.content,
                                          NowAfter(dom, FALSE)) EXCEPT
                              !.startChatBtn.display = "none",
                              !.chatInput.disabled = FALSE,
                              !.chatSendBtn.disabled = FALSE,
                              !.chatStatus = LoadedStatus(data)]
                /\ sessionStore' = SessionSet(sessionStore, items)
                /\ out' = <<SessionWrite(items)>>
                /\ lastStep' = [step |-> "StartChatResponse", success |-> TRUE]
       ELSE /\ dom' = LoadFailed(dom, NowAfter(dom, FALSE))
            /\ out' = <<>>
            /\ lastStep' = [step |-> "StartChatResponse", success |-> FALSE]
            /\ UNCHANGED <<sessionStore, currentProductData, previousProductData,
                           currentChatHistory, isChatActive>>
    /\ UNCHANGED <<posts, stages, closedWith, tabUrl, swEvents, localStore, currentTabId, frame, contentScript,
                   requests>>

\* click on Start Chat (analysis popup)
StartChatAnalysis ==
    /\ PopupReady
    /\ build = "analysis"
    /\ dom.startChatBtn.display = "block"
    /\ ~dom.startChatBtn.disabled
    /\ RoomFor(0, 1)
    /\ isChatActive' = TRUE
    /\ dom' = [addChatMessage(dom, "system",
                   <<"Ready to discuss ",
                     IF Has(currentProductData, "title") THEN currentProductData.title
                     ELSE "this product", "! Ask away.">>,
                   NowAfter(dom, FALSE)) EXCEPT
                  !.startChatBtn.display = "none",
                  !.chatInput.disabled = FALSE,
                  !.chatSendBtn.disabled = FALSE]
    /\ out' = <<>>
    /\ lastStep' = [step |-> "StartChatAnalysis"]
    /\ UNCHANGED <<posts, stages, closedWith, tabUrl, swEvents, sessionStore, localStore, pc, currentTabId,
                   currentProductData, previousProductData, currentChatHistory, frame,
                   contentScript, requests>>

UserTexts == {<<"Is it vegan?">>}

\* the arguments chatWithProduct receives, in the order of its parameters
\* (messageHistory, productData, userContext, apiKey): the chat popup passes
\* previousProductData as a third argument before userContext and apiKey
ChatArguments(history, userContext, apiKey) ==
    IF build = "chat"
    THEN <<history, currentProductData, previousProductData, userContext>>
    ELSE <<history, currentProductData, userContext, apiKey>>

LlmRequestOf(task) == [origin |-> "popup", action |-> task, target |-> "openai", item |-> 0]

\* handleSendMessage from the reply of chatWithProduct to its end: the bubble
\* with the id of the indicator is removed, the reply is shown, pushed and
\* (chat popup) persisted, the input is enabled
SendFinish(d, thinkingId, history, response) ==
    LET shown    == addChatMessage(removeBubble(d, thinkingId), "assistant",
                                   response.content, NowAfter(d, FALSE))
        history2 == Append(history, response)
        items    == ChatSessionItems(history2, currentProductData, previousProductData,
                                     isChatActive)
    IN  /\ dom' = [shown EXCEPT !.chatInput.disabled = FALSE]
        /\ currentChatHistory' = history2
        /\ IF build = "chat"
           THEN /\ sessionStore' = SessionSet(sessionStore, items)
                /\ out' = <<SessionWrite(items)>>
           ELSE /\ out' = <<>>
                /\ UNCHANGED sessionStore

\* handleSendMessage from the 'Thinking...' indicator to the await of fetch
\* (or to its end when chatWithProduct returns without a request); sofar
\* holds the POSTs counted for the handlers up to here
SendCall(slot, d, history, sameMs, sofar) ==
    LET thinkingId  == NowAfter(d, sameMs)
        thinking    == addChatMessage(d, "system", <<"Thinking...">>, thinkingId)
        userContext == getUserContext(localStore, FALSE, schemaVersion)
        apiKey      == getApiKey(localStore, FALSE)
        args        == ChatArguments(history, userContext, apiKey)
    IN  IF ~Truthy(args[4])
        THEN /\ SendFinish(thinking, thinkingId, history, NoApiKeyMessage)
             /\ pc' = [pc EXCEPT ![slot] = "idle"]
             /\ lastStep' = [step |-> "SendCall", slot |-> slot, request |-> FALSE]
             /\ posts' = sofar
             /\ UNCHANGED <<frame, requests>>
        ELSE /\ dom' = thinking
             /\ currentChatHistory' = history
             /\ frame' = [frame EXCEPT ![slot] = [thinkingId |-> thinkingId]]
             /\ requests' = requests \cup {LlmRequestOf(slot)}
             /\ posts' = [sofar EXCEPT ![slot] = @ + 1]
             /\ out' = <<HttpOut(ChatRequest(args[1], args[2], args[3], args[4]),
                                 <<JsArr(args[1]), args[2], args[3]>>)>>
             /\ pc' = [pc EXCEPT ![slot] = "fetch"]
             /\ lastStep' = [step |-> "SendCall", slot |-> slot, request |-> TRUE]
             /\ UNCHANGED sessionStore

\* click on Send or Enter in the chat input, with a text typed
SendClick(slot, text, sameMs) ==
    /\ PopupReady
    /\ ~dom.chatInput.disabled
    /\ pc[slot] = "idle"
    /\ slot = "sendMessage2" => pc["sendMessage"] # "idle"
    /\ RoomFor(2, 2)
    /\ LET userMsg == [role |-> "user", content |-> text]
           shown   == [addChatMessage(dom, "user", text, NowAfter(dom, FALSE)) EXCEPT
                          !.chatInput.disabled = TRUE]
           history == Append(currentChatHistory, userMsg)
           items   == ChatSessionItems(history, currentProductData, previousProductData,
                                       isChatActive)
       IN  IF build = "chat"
           THEN /\ ~sameMs
                /\ dom' = shown
                /\ currentChatHistory' = history
                /\ sessionStore' = SessionSet(sessionStore, items)
                /\ out' = <<SessionWrite(items)>>
                /\ pc' = [pc EXCEPT ![slot] = "saveChatSession"]
                /\ lastStep' = [step |-> "SendClick", slot |-> slot]
                /\ posts' = [posts EXCEPT ![slot] = 0]
                /\ UNCHANGED <<frame, requests>>
           ELSE SendCall(slot, shown, history, sameMs, [posts EXCEPT ![slot] = 0])
    /\ UNCHANGED <<stages, closedWith, tabUrl, swEvents, localStore, currentTabId, currentProductData,
                   previousProductData, isChatActive, contentScript>>

\* chat popup: saveChatSession has returned
SendAfterSave(slot, sameMs) ==
    /\ pc[slot] = "saveChatSession"
    /\ SendCall(slot, dom, currentChatHistory, sameMs, posts)
    /\ UNCHANGED <<stages, closedWith, tabUrl, swEvents, localStore, currentTabId, currentProductData,
                   previousProductData, isChatActive, contentScript>>

\* the fetch of chatWithProduct settles and handleSendMessage runs to its end
SendFetchSettles(slot, answer) ==
    /\ pc[slot] = "fetch"
    /\ pc' = [pc EXCEPT ![slot] = "idle"]
    /\ requests' = requests \ {LlmRequestOf(slot)}
    /\ frame' = [frame EXCEPT ![slot] = EmptyObject]
    /\ SendFinish(dom, frame[slot].thinkingId, currentChatHistory,
                  chatWithProductReturn(answer))
    /\ lastStep' = [step |-> "SendFetchSettles", slot |-> slot, answer |-> answer.kind]
    /\ UNCHANGED <<posts, stages, closedWith, tabUrl, swEvents, localStore, currentTabId, currentProductData,
                   previousProductData, isChatActive, contentScript>>

-----------------------------------------------------------------------------
(* Handlers of the analysis popup *)

\* answers to the fetch of callOpenAI
AnalysisAnswers(f) ==
    FailedAnswers \cup
    {[kind |-> "json", value |-> IF f = "product" THEN BodyAligned ELSE BodyCartGood]}

\* the catch block of the click handlers without the finally block: the error
\* is shown and the button stays as the click left it
ShowFailure_StaysDisabled(d, task, message) ==
    IF task = "checkAlignment"
    THEN [d EXCEPT !.analysisResult = [errorText |-> <<"Error: ">> \o message],
                   !.analysisStatus = <<"Analysis failed">>]
    ELSE [d EXCEPT !.cartResult = [errorText |-> <<"Error: ">> \o message],
                   !.cartStatus = <<"Analysis failed">>]

\* the catch and finally blocks of the click handlers: the error is shown and
\* the button is enabled again under its label
ShowFailure(d, task, message) ==
    IF task = "checkAlignment"
    THEN [d EXCEPT !.analysisResult = [errorText |-> <<"Error: ">> \o message],
                   !.analysisStatus = <<"Analysis failed">>,
                   !.checkAlignmentBtn = [disabled |-> FALSE, text |-> "Check Alignment"]]
    ELSE [d EXCEPT !.cartResult = [errorText |-> <<"Error: ">> \o message],
                   !.cartStatus = <<"Analysis failed">>,
                   !.checkCartBtn = [disabled |-> FALSE, text |-> "Check Cart Coherence"]]

\* displayAnalysisResult / displayCartCoherenceResult, the status text and the
\* finally block
ShowAnalysis(d, task, data, analysis) ==
    LET status == <<IF analysis.error THEN "Analysis limited" ELSE "Analysis complete">>
    IN  IF task = "checkAlignment"
        THEN [d EXCEPT !.analysisResult = [data |-> data, analysis |-> analysis],
                       !.analysisStatus = status,
                       !.checkAlignmentBtn = [disabled |-> FALSE,
                                              text |-> "Check Alignment"]]
        ELSE [d EXCEPT !.cartResult = [data |-> data, analysis |-> analysis],
                       !.cartStatus = status,
                       !.checkCartBtn = [disabled |-> FALSE,
                                         text |-> "Check Cart Coherence"]]

\* click on Check Alignment, up to the await of chrome.tabs.sendMessage
CheckAlignmentClick ==
    /\ PopupReady
    /\ build = "analysis"
    /\ pc["checkAlignment"] = "idle"
    /\ ~dom.checkAlignmentBtn.disabled
    /\ ~IsNull(currentTabId)
    /\ dom' = [dom EXCEPT !.checkAlignmentBtn = [disabled |-> TRUE, text |-> "Analyzing..."],
                          !.analysisStatus = <<"Extracting product data...">>]
    /\ out' = <<TabMessage(tabUrl, "EXTRACT_PRODUCT", <<>>)>>
    /\ pc' = [pc EXCEPT !["checkAlignment"] = "extract"]
    /\ posts' = [posts EXCEPT !["checkAlignment"] = 0]
    /\ stages' = <<>>
    /\ UNCHANGED closedWith
    /\ lastStep' = [step |-> "CheckAlignmentClick"]
    /\ UNCHANGED <<tabUrl, swEvents, sessionStore, localStore, memVars, frame,
                   contentScript, requests>>

\* the content script has answered EXTRACT_PRODUCT (or sendMessage rejects):
\* the handler runs to the await of the fetch in callOpenAI, or to its end
CheckAlignmentResponse ==
    /\ pc["checkAlignment"] = "extract"
    /\ IF ~HasContentScript(tabUrl)
       THEN /\ dom' = ShowFailure(dom, "checkAlignment",
                          <<"Could not establish connection. Receiving end does not exist.">>)
            /\ pc' = [pc EXCEPT !["checkAlignment"] = "idle"]
            /\ out' = <<>>
            /\ lastStep' = [step |-> "CheckAlignmentResponse", request |-> FALSE]
            /\ UNCHANGED <<currentProductData, frame, requests, posts, stages>>
       ELSE LET data        == extractProductData(PageDocument(tabUrl), TRUE, tabUrl)
                chatReady   == [dom EXCEPT
                                  !.startChatBtn.disabled = FALSE,
                                  !.chatStatus =
                                      IF Has(data, "title")
                                      THEN <<"Talking about: ", data.title, "...">>
                                      ELSE <<"Talking about: ", "this product">>]
                productData == preprocessProductData(data)
                handled     == <<"extract", "normalize">>
                userContext == getUserContext(localStore, FALSE, schemaVersion)
                apiKey      == getApiKey(localStore, FALSE)
                ruleSummary == generateRuleSummary(productData, userContext)
                early       ==
                    IF ~Truthy(apiKey)
                    THEN createFallbackResponse(<<"No API key configured">>, productData)
                    ELSE IF ~Has(productData, "title")
                    THEN createFallbackResponse(<<"Insufficient product data">>, productData)
                    ELSE JsNull
            IN  /\ currentProductData' = data
                /\ IF ~IsNull(early)
                   THEN /\ dom' = ShowAnalysis(chatReady, "checkAlignment", productData, early)
                        /\ stages' = stages \o handled \o <<"render">>
                        /\ pc' = [pc EXCEPT !["checkAlignment"] = "idle"]
                        /\ out' = <<>>
                        /\ lastStep' = [step |-> "CheckAlignmentResponse",
                                        request |-> FALSE]
                        /\ UNCHANGED <<frame, requests, posts>>
                   ELSE IF IsThrown(ruleSummary)
                   THEN /\ dom' = ShowFailure(chatReady, "checkAlignment",
                                              ruleSummary.message)
                        /\ stages' = stages \o handled \o <<"normalize", "rules">>
                        /\ pc' = [pc EXCEPT !["checkAlignment"] = "idle"]
                        /\ out' = <<>>
                        /\ lastStep' = [step |-> "CheckAlignmentResponse",
                                        request |-> FALSE]
                        /\ UNCHANGED <<frame, requests, posts>>
                   ELSE /\ dom' = [chatReady EXCEPT
                                      !.analysisStatus = <<"Analyzing with AI...">>]
                        /\ stages' = stages \o handled
                                        \o <<"normalize", "rules", "prompt", "request">>
                        /\ frame' = [frame EXCEPT !["checkAlignment"] =
                                        [productData |-> productData,
                                         deterministicMeta |-> DeterministicMeta(ruleSummary)]]
                        /\ requests' = requests \cup {LlmRequestOf("checkAlignment")}
                        /\ posts' = [posts EXCEPT !["checkAlignment"] = @ + 1]
                        /\ out' = <<HttpOut(
                                      OpenAIRequest(apiKey,
                                          buildProductPrompt(productData, userContext,
                                              DeterministicFacts(ruleSummary),
                                              DeterministicMeta(ruleSummary)),
                                          PRODUCT_ALIGNMENT_SCHEMA),
                                      <<productData, userContext>>)>>
                        /\ pc' = [pc EXCEPT !["checkAlignment"] = "fetch"]
                        /\ lastStep' = [step |-> "CheckAlignmentResponse",
                                        request |-> TRUE]
    /\ UNCHANGED <<closedWith, tabUrl, swEvents, sessionStore, localStore, currentTabId,
                   previousProductData, currentChatHistory, isChatActive, contentScript>>

\* the fetch of callOpenAI settles: analyzeProductAlignment returns, the
\* result is displayed, the button is enabled again
CheckAlignmentSettles(answer) ==
    /\ pc["checkAlignment"] = "fetch"
    /\ LET f        == frame["checkAlignment"]
           analysis == analyzeProductAlignmentSettle(callOpenAIReturn(answer),
                                                     f.productData, f.deterministicMeta)
       IN  dom' = ShowAnalysis(dom, "checkAlignment", f.productData, analysis)
    /\ pc' = [pc EXCEPT !["checkAlignment"] = "idle"]
    /\ frame' = [frame EXCEPT !["checkAlignment"] = EmptyObject]
    /\ requests' = requests \ {LlmRequestOf("checkAlignment")}
    /\ out' = <<>>
    /\ stages' = Append(stages, "render")
    /\ UNCHANGED closedWith
    /\ lastStep' = [step |-> "CheckAlignmentSettles", answer |-> answer.kind]
    /\ UNCHANGED <<posts, tabUrl, swEvents, sessionStore, localStore, memVars, contentScript>>

\* click on Check Cart Coherence, up to the await of chrome.tabs.sendMessage
CheckCartClick ==
    /\ PopupReady
    /\ build = "analysis"
    /\ pc["checkCart"] = "idle"
    /\ ~dom.checkCartBtn.disabled
    /\ ~IsNull(currentTabId)
    /\ dom' = [dom EXCEPT !.checkCartBtn = [disabled |-> TRUE, text |-> "Analyzing..."],
                          !.cartStatus = <<"Extracting cart data...">>]
    /\ out' = <<TabMessage(tabUrl, "EXTRACT_CART", <<>>)>>
    /\ pc' = [pc EXCEPT !["checkCart"] = "extract"]
    /\ posts' = [posts EXCEPT !["checkCart"] = 0]
    /\ UNCHANGED <<stages, closedWith>>
    /\ lastStep' = [step |-> "CheckCartClick"]
    /\ UNCHANGED <<tabUrl, swEvents, sessionStore, localStore, memVars, frame,
                   contentScript, requests>>

\* the Check Cart handler from getUserContext on: analyzeCartCoherence up to
\* the await of the fetch in callOpenAI, or to the end of the handler
CartAnalyze(d, cartData) ==
    LET userContext == getUserContext(localStore, FALSE, schemaVersion)
        apiKey      == getApiKey(localStore, FALSE)
        early       ==
            IF ~Truthy(apiKey) THEN createCartFallback(<<"No API key configured">>)
            ELSE IF cartData.items = <<>>
            THEN createCartFallback(<<"No cart items found">>)
            ELSE JsNull
    IN  IF ~IsNull(early)
        THEN /\ dom' = ShowAnalysis(d, "checkCart", cartData, early)
             /\ pc' = [pc EXCEPT !["checkCart"] = "idle"]
             /\ frame' = [frame EXCEPT !["checkCart"] = EmptyObject]
             /\ out' = <<>>
             /\ UNCHANGED <<requests, posts>>
        ELSE /\ dom' = [d EXCEPT !.cartStatus = <<"Analyzing cart coherence...">>]
             /\ pc' = [pc EXCEPT !["checkCart"] = "fetch"]
             /\ frame' = [frame EXCEPT !["checkCart"] = [cartData |-> cartData]]
             /\ requests' = requests \cup {LlmRequestOf("checkCart")}
             /\ posts' = [posts EXCEPT !["checkCart"] = @ + 1]
             /\ out' = <<HttpOut(OpenAIRequest(apiKey, buildCartPrompt(cartData, userContext),
                                               CART_COHERENCE_SCHEMA),
                                 <<cartData, userContext>>)>>

\* the content script has answered EXTRACT_CART (or sendMessage rejects); with
\* items in the cart the handler sends ENRICH_CART and awaits the answer
CheckCartResponse ==
    /\ pc["checkCart"] = "extract"
    /\ IF ~HasContentScript(tabUrl)
       THEN /\ dom' = ShowFailure(dom, "checkCart",
                          <<"Could not establish connection. Receiving end does not exist.">>)
            /\ pc' = [pc EXCEPT !["checkCart"] = "idle"]
            /\ out' = <<>>
            /\ UNCHANGED <<frame, requests, posts>>
       ELSE LET cartData == extractCartData(tabUrl)
            IN  IF cartData.items # <<>>
                THEN /\ dom' = [dom EXCEPT !.cartStatus =
                                   <<"Fetching details for ", Len(cartData.items),
                                     " items...">>]
                     /\ frame' = [frame EXCEPT !["checkCart"] = [cartData |-> cartData]]
                     /\ out' = <<TabMessage(tabUrl, "ENRICH_CART",
                                            <<JsArr(cartData.items)>>)>>
                     /\ pc' = [pc EXCEPT !["checkCart"] = "enrichSent"]
                     /\ UNCHANGED <<requests, posts>>
                ELSE CartAnalyze(dom, cartData)
    /\ lastStep' = [step |-> "CheckCartResponse"]
    /\ UNCHANGED <<stages, closedWith>>
    /\ UNCHANGED <<tabUrl, swEvents, sessionStore, localStore, memVars, contentScript>>

MerchantRequestOf(i) ==
    [origin |-> "content", action |-> "checkCart", target |-> "merchant", item |-> i]

\* the numbers of a set, ascending
RECURSIVE Ascending(_)
Ascending(S) ==
    IF S = {} THEN <<>>
    ELSE LET m == CHOOSE x \in S : \A y \in S : x <= y
         IN  <<m>> \o Ascending(S \ {m})

\* content script: the ENRICH_CART message arrives and enrichCartItems runs
\* items.map(async ...) to the await of each fetch
ContentEnrichCart ==
    /\ pc["checkCart"] = "enrichSent"
    /\ LET items   == frame["checkCart"].cartData.items
           toFetch == ItemsToFetch(items)
           order   == Ascending(toFetch)
       IN  /\ contentScript' = [enriching |-> TRUE, items |-> items, enriched |-> items,
                                pending |-> toFetch]
           /\ requests' = requests \cup {MerchantRequestOf(i) : i \in toFetch}
           /\ out' = [n \in 1..Len(order) |->
                         MerchantRequest(IF Has(items[order[n]], "url")
                                         THEN items[order[n]].url ELSE <<"undefined">>)]
    /\ pc' = [pc EXCEPT !["checkCart"] = "enrich"]
    /\ lastStep' = [step |-> "ContentEnrichCart"]
    /\ UNCHANGED <<posts, stages, closedWith, tabUrl, swEvents, sessionStore, localStore, memVars, dom, frame>>

\* content script: the fetch of fetchProductDetails for item i settles; ok
\* when the page came back, otherwise fetchProductDetails returns null
MerchantFetchSettles(i, ok) ==
    /\ contentScript.enriching
    /\ i \in contentScript.pending
    /\ LET item    == contentScript.items[i]
           details == extractProductData(
                          PageDocument(IF Has(item, "url") THEN item.url ELSE <<"", "">>),
                          FALSE, tabUrl)
       IN  contentScript' =
              [contentScript EXCEPT
                  !.pending = @ \ {i},
                  !.enriched[i] = IF ok THEN EnrichedItem(item, details) ELSE item]
    /\ requests' = requests \ {MerchantRequestOf(i)}
    /\ out' = <<>>
    /\ lastStep' = [step |-> "MerchantFetchSettles", item |-> i, ok |-> ok]
    /\ UNCHANGED <<posts, stages, closedWith, tabUrl, swEvents, sessionStore, localStore, popupVars>>

\* Promise.all has resolved and the content script has answered ENRICH_CART:
\* the handler takes the enriched items and goes on to the analysis
EnrichResponse ==
    /\ pc["checkCart"] = "enrich"
    /\ contentScript.enriching
    /\ contentScript.pending = {}
    /\ contentScript' = ContentIdle
    /\ CartAnalyze(dom, [frame["checkCart"].cartData EXCEPT
                            !.items = contentScript.enriched])
    /\ lastStep' = [step |-> "EnrichResponse"]
    /\ UNCHANGED <<stages, closedWith>>
    /\ UNCHANGED <<tabUrl, swEvents, sessionStore, localStore, memVars>>

\* the fetch of callOpenAI settles: analyzeCartCoherence returns, the result
\* is displayed, the button is enabled again
CheckCartSettles(answer) ==
    /\ pc["checkCart"] = "fetch"
    /\ dom' = ShowAnalysis(dom, "checkCart", frame["checkCart"].cartData,
                           analyzeCartCoherenceSettle(callOpenAIReturn(answer)))
    /\ pc' = [pc EXCEPT !["checkCart"] = "idle"]
    /\ frame' = [frame EXCEPT !["checkCart"] = EmptyObject]
    /\ requests' = requests \ {LlmRequestOf("checkCart")}
    /\ out' = <<>>
    /\ lastStep' = [step |-> "CheckCartSettles", answer |-> answer.kind]
    /\ UNCHANGED <<posts, stages, closedWith, tabUrl, swEvents, sessionStore, localStore, memVars, contentScript>>

-----------------------------------------------------------------------------
(* The extension: every step of the popup, the page and the service worker *)

Next ==
    \/ OpenPopup /\ UNCHANGED pinnedVars
    \/ ClosePopup /\ UNCHANGED pinnedVars
    \/ \E url \in Urls : Navigate(url) /\ UNCHANGED pinnedVars
    \/ OnUpdated /\ UNCHANGED pinnedVars
    \/ InitLoadContext /\ UNCHANGED pinnedVars
    \/ CheckCurrentPage /\ UNCHANGED pinnedVars
    \/ InitLoadChatSession /\ UNCHANGED pinnedVars
    \/ InitCheckForPageChange /\ UNCHANGED pinnedVars
    \/ \E apiKey \in {FormKey, JsStr("")} :
          SubmitForm(ContextForm, apiKey) /\ UNCHANGED pinnedVars
    \/ StartChatClick /\ UNCHANGED pinnedVars
    \/ (\E reply \in ExtractReplies : StartChatResponse(reply)) /\ UNCHANGED pinnedVars
    \/ StartChatAnalysis /\ UNCHANGED pinnedVars
    \/ \E slot \in SendSlots, text \in UserTexts, sameMs \in BOOLEAN :
          SendClick(slot, text, sameMs) /\ UNCHANGED pinnedVars
    \/ \E slot \in SendSlots, sameMs \in BOOLEAN :
          SendAfterSave(slot, sameMs) /\ UNCHANGED pinnedVars
    \/ \E slot \in SendSlots, answer \in ChatAnswers :
          SendFetchSettles(slot, answer) /\ UNCHANGED pinnedVars
    \/ CheckAlignmentClick /\ UNCHANGED pinnedVars
    \/ CheckAlignmentResponse /\ UNCHANGED pinnedVars
    \/ \E answer \in AnalysisAnswers("product") :
          CheckAlignmentSettles(answer) /\ UNCHANGED pinnedVars
    \/ CheckCartClick /\ UNCHANGED pinnedVars
    \/ CheckCartResponse /\ UNCHANGED pinnedVars
    \/ ContentEnrichCart /\ UNCHANGED pinnedVars
    \/ \E i \in (IF contentScript.enriching THEN contentScript.pending ELSE {}),
         ok \in BOOLEAN : MerchantFetchSettles(i, ok) /\ UNCHANGED pinnedVars
    \/ EnrichResponse /\ UNCHANGED pinnedVars
    \/ \E answer \in AnalysisAnswers("cart") :
          CheckCartSettles(answer) /\ UNCHANGED pinnedVars

Spec == Init /\ [][Next]_vars

-----------------------------------------------------------------------------
(* Properties of the extension *)

\* the messages the last step sent
Sent == {out[i] : i \in DOMAIN out}

\* the API key the local store holds
StoredKeys ==
    IF STORAGE_KEYS.API_KEY \in DOMAIN localStore THEN {localStore[STORAGE_KEYS.API_KEY]}
    ELSE {}

\* the message has the key as its bearer token or as one of its values
CarriesKey(m, key) ==
    \/ \E i \in DOMAIN m.values : m.values[i] = key
    \/ "authorization" \in DOMAIN m /\ m.authorization[2] = key

\* C1: the stored API key leaves the extension only as the bearer token of
\* the Authorization header of a POST to the chat-completions URL of OpenAI:
\* every message of a step that carries the key is such a request (or the
\* write of the key to its own record of the local store), so no write to
\* session storage, no message to the content script and no fetch to the
\* merchant carries it, and no key of the session store holds it.
C1_KeyOnlyInBearerHeaderToOpenAI ==
    \A key \in StoredKeys :
        /\ \A m \in Sent :
              CarriesKey(m, key) =>
                 \/ /\ m.kind = "fetch"
                    /\ m.url = "https://api.openai.com/v1/chat/completions"
                    /\ m.method = "POST"
                    /\ m.authorization = <<"Bearer ", key>>
                    /\ \A i \in DOMAIN m.values : m.values[i] # key
                 \/ /\ m.kind = "storage.set"
                    /\ m.area = "local"
                    /\ m.keys = {"whatfits_api_key"}
        /\ \A k \in DOMAIN sessionStore : sessionStore[k] # key

\* a key is stored and the step has sent a request with it as bearer token
C1_Witness ==
    \E m \in Sent :
        /\ m.kind = "fetch"
        /\ "authorization" \in DOMAIN m
        /\ m.authorization[2] \in StoredKeys
        /\ m.method = "POST"

RequestsOf(task) == {r \in requests : r.action = task}

\* C2 as stated: for every user action at most one network request is in
\* flight at any moment, cart enrichment included.
C2_OneRequestInFlightPerAction ==
    \A task \in Tasks : Cardinality(RequestsOf(task)) <= 1

\* C2: every user action has at most one request to the LLM endpoint in
\* flight, and every action but Check Cart Coherence at most one request of
\* any kind; during the enrichment of Check Cart Coherence the requests in
\* flight are GETs to the merchant, one for each item of the cart that has a
\* url, all in flight together, and the request to the LLM endpoint is not
\* in flight with them.
C2_OneRequestExceptCartEnrichment ==
    /\ \A task \in Tasks :
          /\ Cardinality({r \in RequestsOf(task) : r.target = "openai"}) <= 1
          /\ task # "checkCart" => Cardinality(RequestsOf(task)) <= 1
    /\ \A r \in requests :
          r.target = "merchant" =>
             /\ r.action = "checkCart"
             /\ pc["checkCart"] = "enrich"
             /\ contentScript.enriching
             /\ r.item \in 1..Len(contentScript.items)
             /\ Has(contentScript.items[r.item], "url")
             /\ \A q \in requests : q.target # "openai" \/ q.action # "checkCart"

\* two fetches of the enrichment are in flight
C2_Witness ==
    /\ Cardinality({r \in requests : r.target = "merchant"}) >= 2
    /\ lastStep.step = "ContentEnrichCart"

\* the handlers that call the LLM endpoint
LlmHandlers == {"sendMessage", "sendMessage2", "checkAlignment", "checkCart"}

FailedKinds == {"network_error", "http_error", "empty", "unparsable"}

ChatErrorTexts ==
    {<<"Sorry, I'm having trouble connecting to the AI. Please check your API key.">>,
     <<"I'm sorry, I couldn't generate a response.">>}

\* the handler has ended after one POST, with nothing of it in flight and no
\* request sent by the step that ended it
EndedAfterOnePost(task) ==
    /\ pc[task] = "idle"
    /\ posts[task] = 1
    /\ RequestsOf(task) = {}
    /\ \A m \in Sent : m.kind # "fetch"

\* C3: a user action issues at most one POST to the LLM endpoint; when the
\* call fails (network error, non-2xx status, empty or unparsable content)
\* the step that takes the failure ends the action without another request,
\* and an error result is on display: the apology of chatWithProduct as the
\* last bubble, or the fallback analysis under the status 'Analysis limited'.
C3_NoRetryAndErrorShown ==
    /\ \A task \in LlmHandlers : posts[task] <= 1
    /\ lastStep.step = "SendFetchSettles" /\ lastStep.answer \in FailedKinds =>
          /\ EndedAfterOnePost(lastStep.slot)
          /\ dom.chatMessages # <<>>
          /\ dom.chatMessages[Len(dom.chatMessages)].role = "assistant"
          /\ dom.chatMessages[Len(dom.chatMessages)].text \in ChatErrorTexts
    /\ lastStep.step = "CheckAlignmentSettles" /\ lastStep.answer \in FailedKinds =>
          /\ EndedAfterOnePost("checkAlignment")
          /\ "analysis" \in DOMAIN dom.analysisResult
          /\ dom.analysisResult.analysis.error
          /\ dom.analysisStatus = <<"Analysis limited">>
    /\ lastStep.step = "CheckCartSettles" /\ lastStep.answer \in FailedKinds =>
          /\ EndedAfterOnePost("checkCart")
          /\ "analysis" \in DOMAIN dom.cartResult
          /\ dom.cartResult.analysis.error
          /\ dom.cartStatus = <<"Analysis limited">>

\* a chat send has just taken a failed call
C3_Witness ==
    /\ lastStep.step = "SendFetchSettles"
    /\ lastStep.answer \in FailedKinds
    /\ posts[lastStep.slot] = 1

LocalRecordKeys == {"whatfits_user_context", "whatfits_api_key"}

ChatSessionKeys ==
    {"whatfits_chat_history", "whatfits_product_data", "whatfits_previous_product_data",
     "whatfits_chat_active"}

UrlChangeKeys == {"whatfits_current_url", "whatfits_url_changed"}

\* the keys of the writes of the last step to an area of browser storage
KeysWritten(area) ==
    UNION {m.keys : m \in {x \in Sent : x.kind = "storage.set" /\ x.area = area}}

\* C4 as stated: browser storage holds the two records of the local store
\* and the chat session, and no step writes any other key.
C4_OnlyLocalRecordsAndChatSession ==
    /\ DOMAIN localStore \subseteq LocalRecordKeys
    /\ DOMAIN sessionStore \subseteq ChatSessionKeys
    /\ KeysWritten("local") \subseteq LocalRecordKeys
    /\ KeysWritten("session") \subseteq ChatSessionKeys

\* C4: browser storage holds the two records of the local store, the chat
\* session of the chat popup (history, product data, previous product data,
\* active flag) and the two keys the onUpdated listener of the service worker
\* sets when a tab reports a new URL; no step writes any other key, the
\* listener writes no key but its two, and the popup never writes those.
C4_OnlyLocalRecordsChatSessionAndUrlChange ==
    /\ DOMAIN localStore \subseteq LocalRecordKeys
    /\ DOMAIN sessionStore \subseteq ChatSessionKeys \cup UrlChangeKeys
    /\ KeysWritten("local") \subseteq LocalRecordKeys
    /\ KeysWritten("session") \subseteq
          IF lastStep.step = "OnUpdated" THEN UrlChangeKeys ELSE ChatSessionKeys
    /\ KeysWritten("session") # {} /\ lastStep.step # "OnUpdated" => build = "chat"

\* every key the code writes is in storage
C4_Witness ==
    /\ DOMAIN localStore = LocalRecordKeys
    /\ DOMAIN sessionStore = ChatSessionKeys \cup UrlChangeKeys

\* a product page of the merchant: the host of the URL is fr.myprotein.com
\* and its path is one of a product
IsMerchantProductPage(url) ==
    /\ hostname(url) = "fr.myprotein.com"
    /\ \E piece \in {"/p/", "/sports-nutrition/"} : Includes(splitQuery0(url), <<piece>>)

\* the control of the open popup that starts the extraction of a product can
\* be clicked
ExtractionControlEnabled ==
    /\ PopupOpen
    /\ IF build = "chat"
       THEN dom.startChatBtn.display = "block" /\ ~dom.startChatBtn.disabled
       ELSE ~dom.checkAlignmentBtn.disabled

\* C10: whenever Load Product / Load New Product (chat popup) or Check
\* Alignment (analysis popup) is enabled, the active tab shows a product page
\* of fr.myprotein.com, and an EXTRACT_PRODUCT message goes only to a tab
\* showing such a page.
C10_ExtractionOnlyOnMerchantProductPage ==
    /\ ExtractionControlEnabled => IsMerchantProductPage(tabUrl)
    /\ \A m \in Sent :
          m.kind = "tabs.sendMessage" /\ m.type = "EXTRACT_PRODUCT" =>
             IsMerchantProductPage(m.url)

-----------------------------------------------------------------------------
(* One call of a function of lib/rules.js *)

Ing_OatFlour   == <<"O", "a", "t", " ", "(", "G", ")", " ", "F", "l", "o", "u", "r">>
Ing_SoyE322    == <<"S", "o", "y", " ", "[", "E", "3", "2", "2", "]", " ", "o", "i", "l">>
Ing_Dashed     == <<"-", " ", "w", "h", "e", "y", ".">>
\* strings that hold backslashes, which the regular expressions look for
Ing_Escaped    == <<"w", "h", "e", "y", " ", Backslash, "(", "m", Backslash, ")">>
Ing_EscBracket == <<"s", "o", "y", Backslash, "[", Backslash, "]">>
Ing_EscSpace   == <<"o", "a", "t", Backslash, "s", "s", "x">>

MaxIngredients == 3

IngredientStrings ==
    {Ing_WheyMilk, Ing_whey, Ing_Whey, Ing_Soy, Ing_Parens, Ing_OatFlour, Ing_SoyE322,
     Ing_Dashed, Ing_Escaped, Ing_EscBracket, Ing_EscSpace}

IngredientLists == UNION {[1..n -> IngredientStrings] : n \in 0..MaxIngredients}

\* ingredients that name stimulants in either case, one that names two terms
\* of the vocabulary at once, and ones that name none
Ing_AnhydrousCaffeine ==
    <<"A", "n", "h", "y", "d", "r", "o", "u", "s", " ",
      "C", "a", "f", "f", "e", "i", "n", "e">>
Ing_CAFEINE   == <<"C", "A", "F", "E_ACUTE", "I", "N", "E">>
Ing_GUARANA   == <<"G", "U", "A", "R", "A", "N", "A">>
Ing_KolaNutExtract ==
    <<"k", "o", "l", "a", " ", "n", "u", "t", " ", "e", "x", "t", "r", "a", "c", "t">>
Ing_GreenTea  == <<"g", "r", "e", "e", "n", " ", "t", "e", "a">>

StimulantStrings ==
    {Ing_Caffeine, Ing_AnhydrousCaffeine, Ing_CAFEINE, Ing_GUARANA, Ing_KolaNutExtract,
     Ing_GreenTea, Ing_whey}

StimulantLists == UNION {[1..n -> StimulantStrings] : n \in 0..MaxIngredients}

\* arrays of strings, and values that are not arrays: null, {}, a string
RuleArgs ==
    {JsArr(l) : l \in IngredientLists \cup StimulantLists}
       \cup {JsNull, EmptyObject, JsStr(Ing_whey), JsStr(Ing_Caffeine)}

\* normalizeIngredients(v) for any value v
normalizeIngredientsCall(v) ==
    IF ~Has(v, "array") THEN <<>> ELSE normalizeIngredients(v.array)

InitRules ==
    /\ ruleFn = "none"
    /\ ruleArg \in RuleArgs
    /\ ruleResult = JsNull
    /\ LlmIdle
    /\ StorageIdle
    /\ ExtIdle

NormalizeIngredients ==
    /\ ruleFn = "none"
    /\ ruleFn' = "normalizeIngredients"
    /\ ruleResult' = JsArr(normalizeIngredientsCall(ruleArg))
    /\ UNCHANGED ruleArg

\* checkStimulants(v) for any value v
checkStimulantsCall(v) == checkStimulants(v, "array")

CheckStimulants ==
    /\ ruleFn = "none"
    /\ ruleFn' = "checkStimulants"
    /\ ruleResult' = checkStimulantsCall(ruleArg)
    /\ UNCHANGED ruleArg

NextRules ==
    \/ NormalizeIngredients /\ UNCHANGED <<llmVars, storageVars, extVars>>
    \/ CheckStimulants /\ UNCHANGED <<llmVars, storageVars, extVars>>

SpecRules == InitRules /\ [][NextRules]_vars

-----------------------------------------------------------------------------
(* Properties of lib/rules.js, checked under SpecRules *)

\* the pieces of s from an opening bracket to the next closing one, brackets included
Enclosed(s, open, close) ==
    {SubSeq(s, i, j) : i \in {a \in 1..Len(s) : s[a] = open},
                       j \in {b \in 1..Len(s) : s[b] = close}}

EnclosedIn(s) ==
    {seg \in Enclosed(s, "(", ")") \cup Enclosed(s, "[", "]") :
        /\ Len(seg) >= 2
        /\ \A k \in 2..(Len(seg) - 1) : seg[k] \notin {")", "]"}}

\* C11: after normalizeIngredients no entry of the result holds a piece of
\* text that an ingredient had between ( and ) or between [ and ], brackets
\* included, and 'Whey (Milk)' and 'whey' give one entry.
C11_ParentheticalContentRemoved ==
    ruleFn = "normalizeIngredients" /\ Has(ruleArg, "array") =>
        /\ \A k \in DOMAIN ruleArg.array :
              \A seg \in EnclosedIn(toLowerCase(ruleArg.array[k])) :
                 \A n \in DOMAIN ruleResult.array : ~Includes(ruleResult.array[n], seg)
        /\ ruleArg.array = <<Ing_WheyMilk, Ing_whey>> => Len(ruleResult.array) = 1

\* the place in the input of the first string that normalizes to entry
FirstOccurrence(input, entry) ==
    LET places == {k \in DOMAIN input : normalizeOne(input[k]) = entry}
    IN  CHOOSE k \in places : \A other \in places : k <= other

\* C12: the list normalizeIngredients returns for an array of strings has
\* only lowercased, trimmed, non-empty entries, each once, every one the
\* normal form of an input string and none of those left out, in the order of
\* their first occurrence in the input; the same entries come out for every
\* order of the input; a value that is not an array gives [].
C12_NormalizedListCleanOrderedOrderIndependent ==
    ruleFn = "normalizeIngredients" =>
        IF ~Has(ruleArg, "array") THEN ruleResult = JsArr(<<>>)
        ELSE LET input  == ruleArg.array
                 result == ruleResult.array
             IN  /\ \A i \in DOMAIN result :
                       /\ result[i] = toLowerCase(result[i])
                       /\ result[i] = trim(result[i])
                       /\ result[i] # <<>>
                       /\ \E k \in DOMAIN input : normalizeOne(input[k]) = result[i]
                 /\ \A k \in DOMAIN input :
                       normalizeOne(input[k]) # <<>> =>
                          \E i \in DOMAIN result : result[i] = normalizeOne(input[k])
                 /\ \A i, j \in DOMAIN result :
                       i < j => /\ result[i] # result[j]
                                /\ FirstOccurrence(input, result[i])
                                      < FirstOccurrence(input, result[j])
                 /\ \A order \in Permutations(DOMAIN input) :
                       Range(normalizeIngredients([k \in DOMAIN input |-> input[order[k]]]))
                          = Range(result)

\* three strings, two of them with one normal form, have given two entries
C12_Witness ==
    /\ ruleFn = "normalizeIngredients"
    /\ ruleArg = JsArr(<<Ing_Whey, Ing_Soy, Ing_whey>>)
    /\ ruleResult = JsArr(<< <<"w", "h", "e", "y">>, <<"s", "o", "y">> >>)

-----------------------------------------------------------------------------
(* Properties of the popup handlers *)

\* C13: with no API key in the local store a chat send makes no HTTP
\* request, and the reply it appends to the history and shows is the
\* assistant entry 'Error: No API key configured.': the step of a send that
\* calls chatWithProduct sends nothing and issues no POST, and the history
\* and the last bubble end with that entry.
C13_NoKeyChatMakesNoRequest ==
    (StoredKeys = {} /\ lastStep.step = "SendCall") =>
        /\ ~lastStep.request
        /\ \A m \in Sent : m.kind # "fetch"
        /\ posts[lastStep.slot] = 0
        /\ currentChatHistory # <<>>
        /\ currentChatHistory[Len(currentChatHistory)] = NoApiKeyMessage
        /\ dom.chatMessages # <<>>
        /\ dom.chatMessages[Len(dom.chatMessages)].text = NoApiKeyMessage.content

\* the place of a stage in the pipeline of Check Alignment
StageRank ==
    [extract |-> 1, normalize |-> 2, rules |-> 3, prompt |-> 4, request |-> 5, render |-> 6]

TimesRun(stage) == Cardinality({i \in DOMAIN stages : stages[i] = stage})

\* the deterministic facts the rule check gives for the product the click holds
FactsOfRuleCheck ==
    LET ruleSummary == generateRuleSummary(frame["checkAlignment"].productData,
                                           getUserContext(localStore, FALSE, schemaVersion))
    IN  [stimulants         |-> ruleSummary.stimulants,
         dietary_mismatches |-> ruleSummary.dietary_mismatches,
         ingredient_count   |-> ruleSummary.ingredient_count]

\* the request of the step that calls the model carries a prompt whose
\* deterministic_analysis_facts are those of the rule check
PromptEmbedsFacts ==
    (lastStep.step = "CheckAlignmentResponse" /\ lastStep.request) =>
        /\ Sent # {}
        /\ \A m \in Sent :
              /\ m.kind = "fetch"
              /\ m.body.messages[2].content.deterministic_analysis_facts = FactsOfRuleCheck

\* C14: a click on Check Alignment is a linear pipeline: extraction,
\* normalization, rule check, prompt building, remote call and rendering run
\* in that order, each at most once per click, and the remote call is issued
\* only after the rule check has given the facts the prompt embeds.
C14_LinearPipelineEachStageOnce ==
    /\ \A i, j \in DOMAIN stages : i < j => StageRank[stages[i]] < StageRank[stages[j]]
    /\ \A i \in DOMAIN stages :
          stages[i] = "request" => \E j \in 1..(i - 1) : stages[j] = "rules"
    /\ PromptEmbedsFacts

\* C14 (amended): the stages run in that order, normalization at most twice
\* (the handler preprocesses the product and the rule check preprocesses it
\* again), every other stage at most once per click, and the remote call
\* comes after the rule check, whose facts its prompt embeds.
C14_LinearPipelineNormalizationTwice ==
    /\ \A i, j \in DOMAIN stages : i < j => StageRank[stages[i]] <= StageRank[stages[j]]
    /\ \A stage \in DOMAIN StageRank :
          TimesRun(stage) <= (IF stage = "normalize" THEN 2 ELSE 1)
    /\ \A i \in DOMAIN stages :
          stages[i] = "request" => \E j \in 1..(i - 1) : stages[j] = "rules"
    /\ PromptEmbedsFacts

\* a click on Check Alignment has run to its end, the analysis rendered
C14_Witness ==
    /\ lastStep.step = "CheckAlignmentSettles"
    /\ stages = <<"extract", "normalize", "normalize", "rules", "prompt", "request", "render">>
    /\ Has(currentProductData, "ingredients")
    /\ currentProductData.ingredients # <<>>

\* an active chat session with product data is in the session store
ActiveSessionStored ==
    /\ SESSION_KEYS.CHAT_ACTIVE \in DOMAIN sessionStore
    /\ sessionStore[SESSION_KEYS.CHAT_ACTIVE] = JsBool(TRUE)
    /\ SESSION_KEYS.PRODUCT_DATA \in DOMAIN sessionStore
    /\ ~IsNull(sessionStore[SESSION_KEYS.PRODUCT_DATA])

\* the bubbles of the chat are those of the history, one per entry, in order
OneBubblePerEntry ==
    /\ Len(dom.chatMessages) = Len(currentChatHistory)
    /\ \A i \in DOMAIN currentChatHistory :
          /\ dom.chatMessages[i].role = currentChatHistory[i].role
          /\ dom.chatMessages[i].text = currentChatHistory[i].content

\* C15: the chat session round-trips through the session store: when the
\* popup is opened again, loadChatSession gives currentChatHistory,
\* currentProductData and previousProductData the values they had when the
\* popup closed; if the chat was active then, it is active again, its input
\* and Send button are enabled and the display holds one bubble per history
\* entry in history order; with no active session with product data in the
\* store nothing is restored and the chat stays inactive.
C15_ChatSessionRoundTrips ==
    lastStep.step = "InitLoadChatSession" =>
        /\ currentChatHistory = closedWith.currentChatHistory
        /\ currentProductData = closedWith.currentProductData
        /\ previousProductData = closedWith.previousProductData
        /\ isChatActive = closedWith.isChatActive
        /\ closedWith.isChatActive =>
              /\ ~dom.chatInput.disabled
              /\ ~dom.chatSendBtn.disabled
              /\ OneBubblePerEntry
        /\ ~ActiveSessionStored =>
              /\ currentChatHistory = <<>>
              /\ IsNull(currentProductData)
              /\ IsNull(previousProductData)
              /\ ~isChatActive
              /\ dom.chatInput.disabled
              /\ dom.chatMessages = <<>>

\* the popup is open again after two products were loaded and a message was
\* sent and answered: the three entries and both products are back
C15_Witness ==
    /\ lastStep.step = "InitLoadChatSession"
    /\ closedWith.isChatActive
    /\ Len(currentChatHistory) = 3
    /\ \E i \in DOMAIN currentChatHistory : currentChatHistory[i].role = "assistant"
    /\ ~IsNull(currentProductData)

\* the step is the Load Product handler running from the answer of the
\* content script to its end
LoadProductSucceeds ==
    /\ pc["startChat"] = "sendMessage"
    /\ lastStep'.step = "StartChatResponse"
    /\ lastStep'.success

\* the four records of the chat session in the store are the script variables
SessionHoldsChat ==
    /\ \A k \in {SESSION_KEYS.CHAT_HISTORY, SESSION_KEYS.PRODUCT_DATA,
                 SESSION_KEYS.PREVIOUS_PRODUCT_DATA, SESSION_KEYS.CHAT_ACTIVE} :
          k \in DOMAIN sessionStore
    /\ sessionStore[SESSION_KEYS.CHAT_HISTORY] = JsArr(currentChatHistory)
    /\ sessionStore[SESSION_KEYS.PRODUCT_DATA] = currentProductData
    /\ sessionStore[SESSION_KEYS.PREVIOUS_PRODUCT_DATA] = previousProductData
    /\ sessionStore[SESSION_KEYS.CHAT_ACTIVE] = JsBool(isChatActive)

\* C16: a Load Product that succeeds sets currentProductData to the record
\* the content script extracted from the page, sets previousProductData to
\* the product loaded before it if there was one and leaves it unchanged
\* otherwise, activates the chat, appends one entry of role 'system' (the
\* welcome) to the history, whose earlier entries stay as they were, and
\* writes the session to the store.
C16_LoadProductSetsProductAndWelcomes ==
    [][LoadProductSucceeds =>
          /\ currentProductData' = extractProductData(PageDocument(tabUrl), TRUE, tabUrl)
          /\ previousProductData' = IF IsNull(currentProductData) THEN previousProductData
                                    ELSE currentProductData
          /\ isChatActive'
          /\ Len(currentChatHistory') = Len(currentChatHistory) + 1
          /\ SubSeq(currentChatHistory', 1, Len(currentChatHistory)) = currentChatHistory
          /\ currentChatHistory'[Len(currentChatHistory')].role = "system"
          /\ currentChatHistory'[Len(currentChatHistory')].content[1] = "Loaded \""
          /\ SessionHoldsChat'
          /\ \E m \in Sent' : m.kind = "storage.set" /\ m.area = "session"]_vars

\* a second product has been loaded in a chat that holds the first
C16_Witness ==
    /\ lastStep.step = "StartChatResponse"
    /\ lastStep.success
    /\ ~IsNull(previousProductData)
    /\ previousProductData # currentProductData
    /\ Len(currentChatHistory) >= 2

LoadProductFails ==
    \/ /\ lastStep'.step = "StartChatClick"
       /\ IsNull(lastStep'.tabId)
    \/ /\ lastStep'.step = "StartChatResponse"
       /\ ~lastStep'.success

\* C17: when the extraction fails (no current tab, sendMessage rejecting, no
\* response, a response whose success is false) Load Product leaves
\* currentProductData, previousProductData, isChatActive, currentChatHistory
\* and the session store as they were, adds one bubble with the error to the
\* display and leaves the button enabled.
C17_FailedLoadChangesNothing ==
    [][LoadProductFails =>
          /\ UNCHANGED <<currentProductData, previousProductData, isChatActive,
                         currentChatHistory, sessionStore>>
          /\ Len(dom'.chatMessages) = Len(dom.chatMessages) + 1
          /\ SubSeq(dom'.chatMessages, 1, Len(dom.chatMessages)) = dom.chatMessages
          /\ dom'.chatMessages[Len(dom'.chatMessages)].role = "system"
          /\ dom'.chatMessages[Len(dom'.chatMessages)].text \in
                {<<"Please navigate to a product page first.">>,
                 <<"Could not load product data. Make sure you are on a product page.">>}
          /\ ~dom'.startChatBtn.disabled
          /\ Sent' = {}]_vars

\* a load has failed in a chat that holds a product
C17_Witness ==
    /\ lastStep.step = "StartChatResponse"
    /\ ~lastStep.success
    /\ isChatActive
    /\ ~dom.startChatBtn.disabled
    /\ dom.chatMessages # <<>>

\* a send has just run to its end and no other send awaits its reply
SendCompleted ==
    /\ \/ lastStep.step = "SendFetchSettles"
       \/ lastStep.step = "SendCall" /\ ~lastStep.request
    /\ \A slot \in SendSlots : pc[slot] # "fetch"

\* C18: when the reply to a chat message arrives the 'Thinking...' bubble,
\* and only it, is removed: once the send has completed the display holds no
\* 'Thinking...' bubble, the user's message is in it and the assistant's
\* reply is its last bubble, whatever Date.now() gave as bubble ids.
C18_OnlyThinkingBubbleRemoved ==
    SendCompleted =>
        /\ \A i \in DOMAIN dom.chatMessages : dom.chatMessages[i].text # <<"Thinking...">>
        /\ Len(dom.chatMessages) >= 2
        /\ dom.chatMessages[Len(dom.chatMessages)].role = "assistant"
        /\ \E i \in 1..(Len(dom.chatMessages) - 1) :
              /\ dom.chatMessages[i].role = "user"
              /\ \A j \in (i + 1)..(Len(dom.chatMessages) - 1) :
                    dom.chatMessages[j].role # "assistant"

\* the step leaves the script of the popup running
PopupStaysOpen == lastStep'.step \notin {"OpenPopup", "ClosePopup"}

IsPrefix(s, t) == Len(s) <= Len(t) /\ SubSeq(t, 1, Len(s)) = s

\* the chat requests that await their reply
OutstandingChatRequests == {slot \in SendSlots : LlmRequestOf(slot) \in requests}

\* the entries the history held when this popup was opened
RestoredEntries == Len(closedWith.currentChatHistory)

\* every user entry added since the popup was opened is directly followed by
\* an assistant entry, unless it is the last entry and its send is under way,
\* and every assistant entry added since directly follows a user entry
RepliesFollowUserEntries ==
    \A i \in DOMAIN currentChatHistory :
        i > RestoredEntries =>
            /\ currentChatHistory[i].role = "user" =>
                  IF i = Len(currentChatHistory)
                  THEN \E slot \in SendSlots : pc[slot] # "idle"
                  ELSE currentChatHistory[i + 1].role = "assistant"
            /\ currentChatHistory[i].role = "assistant" =>
                  /\ i > 1
                  /\ currentChatHistory[i - 1].role = "user"

\* C19: whatever the user does and however the handlers interleave, the
\* history of an open popup only grows by appending, at most one chat
\* request awaits its reply at a time, and every user entry is directly
\* followed, once its send has completed, by exactly one assistant entry,
\* also when the remote call fails.
C19_HistoryAppendOnlyOneRequestReplyFollows ==
    /\ [][PopupStaysOpen => IsPrefix(currentChatHistory, currentChatHistory')]_vars
    /\ [](Cardinality(OutstandingChatRequests) <= 1)
    /\ []RepliesFollowUserEntries

\* the initialisation of the chat popup has just finished: checkCurrentPage,
\* loadChatSession and checkForPageChange have all run, no handler since
InitFinished ==
    /\ build = "chat"
    /\ pc["init"] = "done"
    /\ pc["checkCurrentPage"] = "done"
    /\ lastStep.step \in {"CheckCurrentPage", "InitLoadChatSession", "InitCheckForPageChange"}

\* the product of the stored session differs from the page of the tab
StoredProductOfOtherPage ==
    /\ ActiveSessionStored
    /\ Has(sessionStore[SESSION_KEYS.PRODUCT_DATA], "url")
    /\ splitQuery0(tabUrl) # splitQuery0(sessionStore[SESSION_KEYS.PRODUCT_DATA].url)

\* the status text and the button state the initialisation gives when the
\* tabs.query of checkCurrentPage, which is issued first, is answered first
StatusOfSessionAndUrl ==
    IF StoredProductOfOtherPage THEN <<"Different page detected">>
    ELSE IF ActiveSessionStored THEN LoadedStatus(sessionStore[SESSION_KEYS.PRODUCT_DATA])
    ELSE PageStatusText(tabUrl, isProductPage(tabUrl), "Product page detected")

DisabledOfSessionAndUrl ==
    IF StoredProductOfOtherPage THEN FALSE ELSE ~isProductPage(tabUrl)

\* C20: when the initialisation of the popup has finished, the chat status
\* text and the disabled state of the Load Product button are a function of
\* the stored session and the URL of the active tab: the one the
\* initialisation gives when checkCurrentPage answers first, whichever way
\* checkCurrentPage interleaves with loadChatSession and checkForPageChange.
C20_InitResultIndependentOfInterleaving ==
    InitFinished =>
        /\ dom.chatStatus = StatusOfSessionAndUrl
        /\ dom.startChatBtn.disabled = DisabledOfSessionAndUrl

-----------------------------------------------------------------------------
(* One popup with every awaited call returning *)

\* the Check Alignment handler awaits the answer of the content script:
\* what enables CheckAlignmentResponse
CheckAlignmentAwaitsPage == pc["checkAlignment"] = "extract"

\* the Load Product handler awaits the answer of the content script: what
\* enables StartChatResponse
LoadProductAwaitsPage == pc["startChat"] = "sendMessage"

\* what a handler awaits does return: the content script and the session
\* store answer, the merchant fetches of the enrichment and the fetch of the
\* model settle, and the continuation of the handler then runs (weak
\* fairness of each continuation; that of CheckAlignmentResponse and of
\* StartChatResponse is written out with the enabling condition)
AwaitedCallsReturn ==
    /\ (<>[]CheckAlignmentAwaitsPage)
          => []<><<CheckAlignmentResponse /\ UNCHANGED pinnedVars>>_vars
    /\ WF_vars(\E answer \in AnalysisAnswers("product") :
                  CheckAlignmentSettles(answer) /\ UNCHANGED pinnedVars)
    /\ (<>[]LoadProductAwaitsPage)
          => []<><<\E reply \in ExtractReplies :
                     StartChatResponse(reply) /\ UNCHANGED pinnedVars>>_vars
    /\ WF_vars(CheckCartResponse /\ UNCHANGED pinnedVars)
    /\ WF_vars(ContentEnrichCart /\ UNCHANGED pinnedVars)
    /\ WF_vars(\E i \in (IF contentScript.enriching THEN contentScript.pending ELSE {}),
                  ok \in BOOLEAN : MerchantFetchSettles(i, ok) /\ UNCHANGED pinnedVars)
    /\ WF_vars(EnrichResponse /\ UNCHANGED pinnedVars)
    /\ WF_vars(\E answer \in AnalysisAnswers("cart") :
                  CheckCartSettles(answer) /\ UNCHANGED pinnedVars)
    /\ \A slot \in SendSlots :
          /\ WF_vars(\E sameMs \in BOOLEAN :
                        SendAfterSave(slot, sameMs) /\ UNCHANGED pinnedVars)
          /\ WF_vars(\E answer \in ChatAnswers :
                        SendFetchSettles(slot, answer) /\ UNCHANGED pinnedVars)

\* the session store after product A was loaded in an earlier popup
SessionOfProductA ==
    LET data == extractProductData(PageDocument(UrlProductA), TRUE, UrlProductA)
    IN  SessionSet(EmptyObject,
                   ChatSessionItems(<<WelcomeMessage(data)>>, data, JsNull, TRUE))

\* the popup is about to be opened, on any page, with or without a chat
\* session left by an earlier popup (the chat popup alone saves one)
InitLive ==
    /\ LlmIdle
    /\ RulesIdle
    /\ StorageIdle
    /\ build \in {"chat", "analysis"}
    /\ tabUrl \in Urls
    /\ swEvents = <<>>
    /\ sessionStore \in IF build = "chat" THEN {EmptyObject, SessionOfProductA}
                        ELSE {EmptyObject}
    /\ pc = ClosedPc
    /\ currentTabId = JsNull
    /\ currentProductData = JsNull
    /\ previousProductData = JsNull
    /\ currentChatHistory = <<>>
    /\ isChatActive = FALSE
    /\ dom = InitialDom
    /\ frame = NoFrames
    /\ contentScript = ContentIdle
    /\ requests = {}
    /\ posts = NoPosts
    /\ stages = <<>>
    /\ closedWith =
          IF sessionStore = EmptyObject THEN NothingLoaded
          ELSE [currentChatHistory  |-> sessionStore[SESSION_KEYS.CHAT_HISTORY].array,
                currentProductData  |-> sessionStore[SESSION_KEYS.PRODUCT_DATA],
                previousProductData |-> JsNull,
                isChatActive        |-> TRUE]
    /\ out = <<>>
    /\ lastStep = [step |-> "none"]

\* one popup from its opening on: the steps of Next but for the closing of
\* the popup and what happens while it is closed
NextLive ==
    \/ OpenPopup /\ UNCHANGED pinnedVars
    \/ InitLoadContext /\ UNCHANGED pinnedVars
    \/ CheckCurrentPage /\ UNCHANGED pinnedVars
    \/ InitLoadChatSession /\ UNCHANGED pinnedVars
    \/ InitCheckForPageChange /\ UNCHANGED pinnedVars
    \/ \E apiKey \in {FormKey, JsStr("")} :
          SubmitForm(ContextForm, apiKey) /\ UNCHANGED pinnedVars
    \/ StartChatClick /\ UNCHANGED pinnedVars
    \/ (\E reply \in ExtractReplies : StartChatResponse(reply)) /\ UNCHANGED pinnedVars
    \/ StartChatAnalysis /\ UNCHANGED pinnedVars
    \/ \E slot \in SendSlots, text \in UserTexts, sameMs \in BOOLEAN :
          SendClick(slot, text, sameMs) /\ UNCHANGED pinnedVars
    \/ \E slot \in SendSlots, sameMs \in BOOLEAN :
          SendAfterSave(slot, sameMs) /\ UNCHANGED pinnedVars
    \/ \E slot \in SendSlots, answer \in ChatAnswers :
          SendFetchSettles(slot, answer) /\ UNCHANGED pinnedVars
    \/ CheckAlignmentClick /\ UNCHANGED pinnedVars
    \/ CheckAlignmentResponse /\ UNCHANGED pinnedVars
    \/ \E answer \in AnalysisAnswers("product") :
          CheckAlignmentSettles(answer) /\ UNCHANGED pinnedVars
    \/ CheckCartClick /\ UNCHANGED pinnedVars
    \/ CheckCartResponse /\ UNCHANGED pinnedVars
    \/ ContentEnrichCart /\ UNCHANGED pinnedVars
    \/ \E i \in (IF contentScript.enriching THEN contentScript.pending ELSE {}),
         ok \in BOOLEAN : MerchantFetchSettles(i, ok) /\ UNCHANGED pinnedVars
    \/ EnrichResponse /\ UNCHANGED pinnedVars
    \/ \E answer \in AnalysisAnswers("cart") :
          CheckCartSettles(answer) /\ UNCHANGED pinnedVars

SpecLive == InitLive /\ [][NextLive]_vars /\ AwaitedCallsReturn

\* the control of the handler is enabled and, for the buttons of the
\* analysis, has its label back
ControlRestored(task) ==
    IF task \in SendSlots THEN ~dom.chatInput.disabled
    ELSE IF task = "startChat" THEN ~dom.startChatBtn.disabled
    ELSE IF task = "checkAlignment"
    THEN dom.checkAlignmentBtn = [disabled |-> FALSE, text |-> "Check Alignment"]
    ELSE dom.checkCartBtn = [disabled |-> FALSE, text |-> "Check Cart Coherence"]

\* the handlers that disable their control while they run: the sends, Load
\* Product, Check Alignment and Check Cart Coherence
DisablingHandlers == SendSlots \cup {"startChat", "checkAlignment", "checkCart"}

\* the handler has ended and its control is enabled again
EndedWithControlRestored(task) == pc[task] = "idle" /\ ControlRestored(task)

\* C21: every control that a handler disables while it runs is enabled
\* again when the handler ends, on success and on failure alike, as long as
\* the calls it awaits return: the chat input after a send, the button
\* under its original label after a Check Alignment or Check Cart Coherence
\* click, and so the Load Product button after a load.
C21_EveryDisabledControlIsReenabled ==
    \A task \in DisablingHandlers :
        (pc[task] # "idle") ~> EndedWithControlRestored(task)

\* C21 (amended): the chat input is enabled again after a send, and the
\* button is enabled again under its original label after a Check Alignment
\* or Check Cart Coherence click, on success and on failure alike, as long
\* as the awaited calls return; the Load Product button is enabled again
\* when the load fails and is hidden, still disabled, when it succeeds.
C21_DisabledControlsAreReenabled ==
    /\ \A task \in DisablingHandlers \ {"startChat"} :
          (pc[task] # "idle") ~> EndedWithControlRestored(task)
    /\ (pc["startChat"] # "idle") ~>
          /\ pc["startChat"] = "idle"
          /\ \/ ~dom.startChatBtn.disabled
             \/ dom.startChatBtn = [disabled |-> TRUE, display |-> "none",
                                    text |-> "Loading..."]

\* a Check Alignment click has ended on a failed remote call, its button is back
C21_Witness ==
    /\ lastStep.step = "CheckAlignmentSettles"
    /\ lastStep.answer \in FailedKinds
    /\ ControlRestored("checkAlignment")
    /\ stages # <<>>

-----------------------------------------------------------------------------
(* checkStimulants, checked under SpecRules *)

\* the stimulant vocabulary
DirectTerms    == Range(STIMULANTS_direct)
BotanicalTerms == Range(STIMULANTS_botanical)

\* the terms of the vocabulary that occur in some ingredient of the array v,
\* lowercased; none when v is not an array
MatchedTerms(v) ==
    IF ~Has(v, "array") THEN {}
    ELSE {term \in DirectTerms \cup BotanicalTerms :
            \E n \in DOMAIN v.array : Includes(toLowerCase(v.array[n]), term)}

\* C22: checkStimulants returns present true exactly when some term of the
\* stimulant vocabulary is a substring of some lowercased ingredient; found
\* holds exactly the matched terms, each once; type is "direct" when a direct
\* term matched, "botanical" when only botanical terms matched, and "none"
\* with an empty found list when nothing matched or the input is not an array.
C22_CheckStimulantsReportsMatchedTerms ==
    ruleFn = "checkStimulants" =>
        LET matched == MatchedTerms(ruleArg)
        IN  /\ ruleResult.present = (matched # {})
            /\ Range(ruleResult.found) = matched
            /\ Len(ruleResult.found) = Cardinality(matched)
            /\ ruleResult.type =
                  IF matched \cap DirectTerms # {} THEN "direct"
                  ELSE IF matched # {} THEN "botanical"
                  ELSE "none"
            /\ (matched = {} \/ ~Has(ruleArg, "array")) =>
                  ruleResult = [present |-> FALSE, found |-> <<>>, type |-> "none"]

\* two direct terms and a botanical one are found in ingredients written with
\* capitals
C22_Witness ==
    /\ ruleFn = "checkStimulants"
    /\ ruleArg = JsArr(<<Ing_GUARANA, Ing_AnhydrousCaffeine>>)
    /\ ruleResult = [present |-> TRUE,
                     found   |-> <<STIMULANTS_direct[1], STIMULANTS_direct[5],
                                   STIMULANTS_botanical[1]>>,
                     type    |-> "direct"]

=============================================================================
